---- MODULE Spec2Model ----
(***************************************************************************)
(* Seismogram Digitizer: a state-machine model of the digitization project *)
(* (core/project.py), the trace manager (core/trace_manager.py), the       *)
(* panels and dialogs that edit the project, the workspace settings, the   *)
(* project file, and the interactive vector/cut canvas (gl_widget.py).     *)
(*                                                                         *)
(* Python objects are modelled with their identity: a SeismicTrace is a    *)
(* slot of the heap trace_objs (its handle is the slot number), so the     *)
(* same trace can sit in project.traces twice; a DigitizationInterval is a *)
(* record that carries its object identity in the field obj, so the same   *)
(* interval can be referenced from several lists.                          *)
(***************************************************************************)
EXTENDS Integers, Sequences, FiniteSets, TLC

VARIABLES
    trace_objs,        \* heap of SeismicTrace objects: handle -> [id, name, raster_coords, intervals]
    traces,            \* DigitizationProject.traces: sequence of trace handles
    loose_intervals,   \* DigitizationProject.loose_intervals
    total_intervals,   \* DigitizationProject.total_intervals
    total_points,      \* DigitizationProject.total_points
    next_obj,          \* number of DigitizationInterval objects the lists have held so far
    settings,          \* DigitizationProject.settings (WorkspaceSettings)
    file,              \* the project file on disk: what save pickled, if anything
    gl,                \* the GLWidget: modes, active raster, cut polygon, curves
    curves_file,       \* the curve file on disk: what save_curves_to_file wrote, if anything
    tile_manager,      \* a TileManager: tile_size, image size and the list of tiles
    canvas,            \* the OpenGLRasterWidget of the RasterCanvas: raster, view, textures
    raster,            \* DigitizationProject.raster
    window,            \* the MainWindow: its menus' enabled flags, its title, its project's path
    engine,            \* a DigitizerEngine and the calls it is running (batch, time marks)
    loader,            \* an ImageLoader: image_data, width, height, dpi
    last               \* the last call: its name, its arguments and its result

project_vars == <<trace_objs, traces, loose_intervals, total_intervals, total_points, next_obj>>

\* What the project's own operations never touch.
\* What neither the project nor the GLWidget's own handlers touch.
tool_vars == <<engine, loader>>

gui_vars == <<curves_file, tile_manager, canvas, raster, window, tool_vars>>

outside_project == <<settings, file, gl, gui_vars>>

vars == <<trace_objs, traces, loose_intervals, total_intervals, total_points, next_obj,
          settings, file, gl, curves_file, tile_manager, canvas, raster, window, engine, loader,
          last>>

(***************************************************************************)
(* Bounds of the model.                                                    *)
(***************************************************************************)
MaxTraceObjs == 2      \* SeismicTrace objects constructed
MaxIntervalObjs == 3   \* DigitizationInterval objects constructed (Spec)
MaxLen == 2            \* length of project.traces and of an interval list (Spec)
MaxCount == 2          \* total_intervals; total_points <= 3 * MaxCount (Spec)

None == "None"

\* The result None where a call returns an interval: results are recorded by
\* the object number of the interval returned, and objects are numbered from 1.
NoObject == 0

(***************************************************************************)
(* models/seismic_data.py                                                  *)
(***************************************************************************)
DigitizationPoint(x, y) == [x_px |-> x, y_px |-> y, t_val |-> None, a_val |-> None]

\* interpolated_points: None, or a numpy array of rows.
NoArray == [kind |-> "None", rows |-> <<>>]

DigitizationInterval(o, i, ty, pts, col, po, tc, ac) ==
    [obj |-> o, id |-> i, type |-> ty, points |-> pts, interpolated_points |-> NoArray,
     color |-> col, polynomial_order |-> po, time_correction |-> tc,
     amplitude_correction |-> ac]

SeismicTrace(i, nm, rc, ivs) ==
    [id |-> i, name |-> nm, raster_coords |-> rc, intervals |-> ivs]

\* Interval contents a caller (or the canvas) builds: kind, points, colour, order, offsets.
IntervalInputs ==
    { [type |-> "waveform", points |-> <<DigitizationPoint(2, 1), DigitizationPoint(0, 0), DigitizationPoint(1, 1)>>,
       color |-> "#FF0000", polynomial_order |-> 3, time_correction |-> 0, amplitude_correction |-> 0],
      [type |-> "noise", points |-> <<DigitizationPoint(1, 0), DigitizationPoint(3, 2)>>,
       color |-> "#00FF00", polynomial_order |-> 2, time_correction |-> 1, amplitude_correction |-> 2] }

\* raster_coords a caller gives a trace: the corners may come in either order.
RasterCoordsInputs == { <<2, 2, 0, 0>> }

(***************************************************************************)
(* List helpers (Python list semantics).                                   *)
(***************************************************************************)
RemoveAt(s, i) == SubSeq(s, 1, i - 1) \o SubSeq(s, i + 1, Len(s))

\* Index of the first element of s whose field id is i, 0 when there is none
\* (for ... enumerate(...): if x.id == i: ... break).
FirstWithId(s, i) ==
    IF \E k \in 1..Len(s) : s[k].id = i
    THEN CHOOSE k \in 1..Len(s) : s[k].id = i /\ \A j \in 1..(k - 1) : s[j].id # i
    ELSE 0

\* sum(len(interval.points) for interval in ivs)
RECURSIVE SumPoints(_)
SumPoints(ivs) ==
    IF ivs = <<>> THEN 0 ELSE Len(Head(ivs).points) + SumPoints(Tail(ivs))

\* all_points.extend(interval.points) for each interval of ivs
RECURSIVE ConcatPoints(_)
ConcatPoints(ivs) ==
    IF ivs = <<>> THEN <<>> ELSE Head(ivs).points \o ConcatPoints(Tail(ivs))

\* p inserted into the x-sorted list s behind every element whose x_px is <= p.x_px
RECURSIVE InsertByX(_, _)
InsertByX(s, p) ==
    IF s = <<>> THEN <<p>>
    ELSE IF p.x_px < Head(s).x_px THEN <<p>> \o s
    ELSE <<Head(s)>> \o InsertByX(Tail(s), p)

\* list.sort(key=lambda p: p.x_px): a stable sort ascending by x_px
RECURSIVE SortByX(_)
SortByX(pts) ==
    IF pts = <<>> THEN <<>>
    ELSE InsertByX(SortByX(SubSeq(pts, 1, Len(pts) - 1)), pts[Len(pts)])

(***************************************************************************)
(* The objects that exist.                                                 *)
(***************************************************************************)
TraceHandles == 1..Len(trace_objs)

\* Every interval object some list refers to.
ExistingIntervals ==
    {loose_intervals[k] : k \in 1..Len(loose_intervals)} \cup
    UNION {{trace_objs[h].intervals[k] : k \in 1..Len(trace_objs[h].intervals)} : h \in TraceHandles}

ExistingIntervalIds == {iv.id : iv \in ExistingIntervals}

KnownTraceIds == {trace_objs[h].id : h \in TraceHandles}

\* The interval a caller builds from the contents c: object number o, a new id.
NewInterval(o, c) ==
    DigitizationInterval(o, o, c.type, c.points, c.color, c.polynomial_order,
                         c.time_correction, c.amplitude_correction)

\* The number of interval objects once iv, existing or new, is held by a list.
Constructed(iv) == IF iv.obj > next_obj THEN iv.obj ELSE next_obj

(***************************************************************************)
(* models/workspace_params.py                                              *)
(***************************************************************************)
TimeEndCorrection == 100

\* The dataclass constructor followed by __post_init__.  The fields that no
\* operation of the program ever assigns keep their defaults and are left out.
WorkspaceSettings(ro, ts, te, rate, dio, ai, sg) ==
    [raster_orientation |-> ro, time_start |-> ts,
     time_end |-> IF te <= ts THEN ts + TimeEndCorrection ELSE te,
     export_sampling_rate |-> rate, default_interpolation_order |-> dio,
     auto_interpolate |-> ai, show_grid |-> sg]

DefaultSettings == WorkspaceSettings("horizontal", 0, 100, 100, 3, FALSE, TRUE)

(***************************************************************************)
(* core/project.py: trace bookkeeping                                      *)
(***************************************************************************)
\* DigitizationProject.add_trace(trace): no check of the id, counters from the
\* trace's own lists at the time of the call.
add_trace(h) ==
    /\ traces' = Append(traces, h)
    /\ total_intervals' = total_intervals + Len(trace_objs[h].intervals)
    /\ total_points' = total_points + SumPoints(trace_objs[h].intervals)
    /\ UNCHANGED <<trace_objs, loose_intervals, next_obj, outside_project>>

\* Position in project.traces of the first trace whose id is i, 0 when none.
TracePosition(i) ==
    IF \E k \in 1..Len(traces) : trace_objs[traces[k]].id = i
    THEN CHOOSE k \in 1..Len(traces) :
             /\ trace_objs[traces[k]].id = i
             /\ \A j \in 1..(k - 1) : trace_objs[traces[j]].id # i
    ELSE 0

\* A remove_trace that takes the trace out and subtracts its intervals but
\* leaves total_points as it was.
remove_trace_keeping_points(i) ==
    IF TracePosition(i) = 0
    THEN UNCHANGED <<traces, total_intervals, total_points>>
    ELSE /\ total_intervals' = total_intervals - Len(trace_objs[traces[TracePosition(i)]].intervals)
         /\ total_points' = total_points
         /\ traces' = RemoveAt(traces, TracePosition(i))

\* The body of DigitizationProject.remove_trace(trace_id).
remove_trace_effect(i) ==
    IF TracePosition(i) = 0
    THEN UNCHANGED <<traces, total_intervals, total_points>>
    ELSE /\ total_intervals' = total_intervals - Len(trace_objs[traces[TracePosition(i)]].intervals)
         /\ total_points' = total_points - SumPoints(trace_objs[traces[TracePosition(i)]].intervals)
         /\ traces' = RemoveAt(traces, TracePosition(i))

\* What remove_trace(trace_id) returns.
remove_trace_result(i) == TracePosition(i) # 0

remove_trace(i) ==
    /\ remove_trace_effect(i)
    /\ UNCHANGED <<trace_objs, loose_intervals, next_obj, outside_project>>

\* DigitizationProject.find_trace_by_id: the handle of the first trace with that id, 0 for None.
find_trace_by_id(i) == IF TracePosition(i) = 0 THEN 0 ELSE traces[TracePosition(i)]

(***************************************************************************)
(* core/trace_manager.py                                                   *)
(***************************************************************************)
Min(a, b) == IF a <= b THEN a ELSE b

Max(a, b) == IF a >= b THEN a ELSE b

\* TraceManager.create_trace(name, raster_coords): a new trace object under a
\* new uuid (the handle number stands for it), with no intervals.  The trace
\* is returned to the caller; it is not put into project.traces.
create_trace(nm, rc) ==
    /\ trace_objs' = Append(trace_objs, SeismicTrace(Len(trace_objs) + 1, nm, rc, <<>>))
    /\ UNCHANGED <<traces, loose_intervals, total_intervals, total_points, next_obj,
                   outside_project>>

\* _is_interval_in_trace_area with the comparisons made strict: a point on an
\* edge of the rectangle is taken to be outside it.
is_interval_in_trace_area_strict(iv, tr) ==
    \/ iv.points = <<>>
    \/ \A k \in 1..Len(iv.points) :
           /\ Min(tr.raster_coords[1], tr.raster_coords[3]) < iv.points[k].x_px
           /\ iv.points[k].x_px < Max(tr.raster_coords[1], tr.raster_coords[3])
           /\ Min(tr.raster_coords[2], tr.raster_coords[4]) < iv.points[k].y_px
           /\ iv.points[k].y_px < Max(tr.raster_coords[2], tr.raster_coords[4])

\* TraceManager._is_interval_in_trace_area(interval, trace)
is_interval_in_trace_area(iv, tr) ==
    \/ iv.points = <<>>
    \/ \A k \in 1..Len(iv.points) :
           /\ Min(tr.raster_coords[1], tr.raster_coords[3]) <= iv.points[k].x_px
           /\ iv.points[k].x_px <= Max(tr.raster_coords[1], tr.raster_coords[3])
           /\ Min(tr.raster_coords[2], tr.raster_coords[4]) <= iv.points[k].y_px
           /\ iv.points[k].y_px <= Max(tr.raster_coords[2], tr.raster_coords[4])

\* TraceManager.add_interval_to_trace(trace, interval), the manager bound to
\* the project.  An interval the caller built for the call is counted in
\* next_obj when a list takes it; a rejected one is dropped with its number.
add_interval_to_trace(h, iv) ==
    /\ IF ~is_interval_in_trace_area(iv, trace_objs[h])
       THEN UNCHANGED <<trace_objs, total_intervals, total_points, next_obj>>
       ELSE /\ trace_objs' = [trace_objs EXCEPT ![h].intervals = Append(@, iv)]
            /\ next_obj' = Constructed(iv)
            /\ total_intervals' = total_intervals + 1
            /\ total_points' = total_points + Len(iv.points)
    /\ UNCHANGED <<traces, loose_intervals, outside_project>>

\* What add_interval_to_trace(trace, interval) returns.
add_interval_result(h, iv) == is_interval_in_trace_area(iv, trace_objs[h])

\* The intervals of ivs whose id is in ids / is not in ids, in list order.
Matched(ivs, ids) == SelectSeq(ivs, LAMBDA iv : iv.id \in ids)

Remaining(ivs, ids) == SelectSeq(ivs, LAMBDA iv : iv.id \notin ids)

\* A merged interval whose points are left in the order of the matched intervals.
merged_interval_unsorted(o, m) ==
    DigitizationInterval(o, o, m[1].type, ConcatPoints(m), m[1].color,
                         m[1].polynomial_order, 0, 0)

\* The interval merge_intervals builds from the matched intervals m (object o,
\* a new uuid): kind, colour and order of the first one, default offsets.
merged_interval(o, m) ==
    DigitizationInterval(o, o, m[1].type, SortByX(ConcatPoints(m)), m[1].color,
                         m[1].polynomial_order, 0, 0)

\* What merge_intervals returns, by object number: the new interval or None.
merge_result(h, ids) ==
    IF Len(Matched(trace_objs[h].intervals, ids)) < 2 THEN NoObject ELSE next_obj + 1

\* TraceManager.merge_intervals(trace, interval_ids)
merge_intervals(h, ids) ==
    IF Len(Matched(trace_objs[h].intervals, ids)) < 2
    THEN UNCHANGED <<project_vars, outside_project>>
    ELSE /\ next_obj' = next_obj + 1
         /\ trace_objs' = [trace_objs EXCEPT ![h].intervals =
                Append(Remaining(trace_objs[h].intervals, ids),
                       merged_interval(next_obj + 1, Matched(trace_objs[h].intervals, ids)))]
         /\ UNCHANGED <<traces, loose_intervals, total_intervals, total_points,
                        outside_project>>

\* A second half that starts behind the split point instead of at it.
points2_behind_split(pts, k) == SubSeq(pts, k + 2, Len(pts))

\* interval.points[:split_index + 1] and interval.points[split_index:] (0-based index k)
points1(pts, k) == SubSeq(pts, 1, k + 1)

points2(pts, k) == SubSeq(pts, k + 1, Len(pts))

\* The two intervals split_interval builds from iv (new objects, new uuids).
interval1(o, iv, k) ==
    DigitizationInterval(o, o, iv.type, points1(iv.points, k), iv.color,
                         iv.polynomial_order, iv.time_correction, iv.amplitude_correction)

interval2(o, iv, k) ==
    DigitizationInterval(o, o, iv.type, points2(iv.points, k), iv.color,
                         iv.polynomial_order, iv.time_correction, iv.amplitude_correction)

\* The guard of split_interval: the id is found and not (k < 1 or k >= len(points) - 1).
split_accepts(ivs, i, k) ==
    /\ FirstWithId(ivs, i) # 0
    /\ ~(k < 1 \/ k >= Len(ivs[FirstWithId(ivs, i)].points) - 1)

\* What split_interval returns, by object numbers: the two new intervals or (None, None).
split_result(h, i, k) ==
    IF split_accepts(trace_objs[h].intervals, i, k)
    THEN <<next_obj + 1, next_obj + 2>>
    ELSE <<NoObject, NoObject>>

\* TraceManager.split_interval(trace, interval_id, split_index)
split_interval(h, i, k) ==
    IF ~split_accepts(trace_objs[h].intervals, i, k)
    THEN UNCHANGED <<project_vars, outside_project>>
    ELSE /\ next_obj' = next_obj + 2
         /\ trace_objs' = [trace_objs EXCEPT ![h].intervals =
                RemoveAt(@, FirstWithId(@, i)) \o
                <<interval1(next_obj + 1, @[FirstWithId(@, i)], k),
                  interval2(next_obj + 2, @[FirstWithId(@, i)], k)>>]
         /\ UNCHANGED <<traces, loose_intervals, total_intervals, total_points,
                        outside_project>>
(***************************************************************************)
(* utils/interpolation.py and DigitizationProject.get_digitized_data       *)
(***************************************************************************)
\* trace_id None.
NoTrace == 0

\* regular_digitization(points, time_start, time_end, sampling_rate, order):
\* raises ValueError under 2 points, and the cubic spline through the points
\* sorted by x raises when two of them share an x.  The series itself is kept
\* symbolic: it is a function of the sorted points, the window and the rate
\* (the polynomial order is passed on but not used by the spline branch).
regular_digitization(pts, ts, te, rate) ==
    IF Len(pts) < 2
    THEN [ok |-> FALSE]
    ELSE IF \E k \in 1..(Len(pts) - 1) : SortByX(pts)[k].x_px = SortByX(pts)[k + 1].x_px
    THEN [ok |-> FALSE]
    ELSE [ok |-> TRUE, samples_of |-> SortByX(pts), time_start |-> ts, time_end |-> te,
          sampling_rate |-> rate]

\* The series of one interval under the project's settings with the interval's
\* offsets applied; [ok |-> FALSE] stands for (None, None).
digitized(iv) ==
    IF regular_digitization(iv.points, settings.time_start, settings.time_end,
                            settings.export_sampling_rate).ok
    THEN [ok |-> TRUE,
          series |-> regular_digitization(iv.points, settings.time_start, settings.time_end,
                                          settings.export_sampling_rate),
          time_shift |-> iv.time_correction, amplitude_shift |-> iv.amplitude_correction]
    ELSE [ok |-> FALSE]

\* The first trace of ts (handles, in list order) that holds an interval with id i.
RECURSIVE FindInTraces(_, _)
FindInTraces(ts, i) ==
    IF ts = <<>> THEN [found |-> FALSE]
    ELSE IF FirstWithId(trace_objs[Head(ts)].intervals, i) # 0
    THEN [found |-> TRUE,
          interval |-> trace_objs[Head(ts)].intervals[FirstWithId(trace_objs[Head(ts)].intervals, i)],
          trace_id |-> trace_objs[Head(ts)].id]
    ELSE FindInTraces(Tail(ts), i)

\* DigitizationProject.find_interval_by_id: traces first, then the loose intervals.
find_interval_by_id(i) ==
    IF FindInTraces(traces, i).found THEN FindInTraces(traces, i)
    ELSE IF FirstWithId(loose_intervals, i) # 0
    THEN [found |-> TRUE, interval |-> loose_intervals[FirstWithId(loose_intervals, i)],
          trace_id |-> NoTrace]
    ELSE [found |-> FALSE]

\* What DigitizationProject.get_digitized_data(interval_id, trace_id) returns.
digitized_data(i, tid) ==
    IF ~find_interval_by_id(i).found THEN [ok |-> FALSE]
    ELSE IF tid # NoTrace /\ find_interval_by_id(i).trace_id # tid THEN [ok |-> FALSE]
    ELSE digitized(find_interval_by_id(i).interval)

\* The call itself reads the project and changes nothing.
get_digitized_data(i, tid) == UNCHANGED <<project_vars, outside_project>>

(***************************************************************************)
(* gui/main_window.py, gui/simple_trace_panel.py, gui/traces_panel.py      *)
(***************************************************************************)
\* MainWindow.finish_current_interval: RasterCanvas defines no method
\* finish_current_interval, so the call on the canvas raises AttributeError
\* before the append to loose_intervals is reached.
finish_current_interval == UNCHANGED <<project_vars, outside_project>>

\* SimpleTraceDialog.add_interval with the trace item of id tid selected: an
\* empty waveform interval under a new uuid is appended to the trace's list
\* (the counters are not touched).
dialog_add_interval(tid) ==
    IF find_trace_by_id(tid) = 0
    THEN UNCHANGED <<project_vars, outside_project>>
    ELSE /\ next_obj' = next_obj + 1
         /\ trace_objs' = [trace_objs EXCEPT ![find_trace_by_id(tid)].intervals =
                Append(@, DigitizationInterval(next_obj + 1, next_obj + 1, "waveform", <<>>,
                                               "#FF0000", 3, 0, 0))]
         /\ UNCHANGED <<traces, loose_intervals, total_intervals, total_points,
                        outside_project>>

\* for i, interval in enumerate(trace.intervals): if interval.id == iid: pop(i); break
\* on the trace found under tid.
pop_trace_interval(tid, iid) ==
    IF find_trace_by_id(tid) # 0
    THEN trace_objs' = [trace_objs EXCEPT ![find_trace_by_id(tid)].intervals =
             IF FirstWithId(@, iid) # 0 THEN RemoveAt(@, FirstWithId(@, iid)) ELSE @]
    ELSE UNCHANGED trace_objs

\* The same loop on project.loose_intervals.
pop_loose_interval(iid) ==
    loose_intervals' = IF FirstWithId(loose_intervals, iid) # 0
                       THEN RemoveAt(loose_intervals, FirstWithId(loose_intervals, iid))
                       ELSE loose_intervals

\* SimpleTraceDialog.delete_selected on the selected tree item (kind, tid, iid);
\* the item of a loose interval carries the trace id None.
dialog_delete_selected(kind, tid, iid) ==
    \/ /\ kind = "trace"
       /\ remove_trace_effect(tid)
       /\ UNCHANGED <<trace_objs, loose_intervals, next_obj, outside_project>>
    \/ /\ kind = "interval" /\ tid # NoTrace
       /\ pop_trace_interval(tid, iid)
       /\ UNCHANGED <<traces, loose_intervals, total_intervals, total_points, next_obj,
                      outside_project>>
    \/ /\ kind = "interval" /\ tid = NoTrace
       /\ pop_loose_interval(iid)
       /\ UNCHANGED <<trace_objs, traces, total_intervals, total_points, next_obj,
                      outside_project>>

\* TracesPanel.remove_selected on the current tree item.
panel_remove_selected(kind, tid, iid) ==
    \/ /\ kind = "trace"
       /\ traces' = IF TracePosition(tid) # 0 THEN RemoveAt(traces, TracePosition(tid))
                    ELSE traces
       /\ UNCHANGED <<trace_objs, loose_intervals, total_intervals, total_points, next_obj,
                      outside_project>>
    \/ /\ kind = "interval"
       /\ pop_trace_interval(tid, iid)
       /\ UNCHANGED <<traces, loose_intervals, total_intervals, total_points, next_obj,
                      outside_project>>
    \/ /\ kind = "loose_interval"
       /\ pop_loose_interval(iid)
       /\ UNCHANGED <<trace_objs, traces, total_intervals, total_points, next_obj,
                      outside_project>>
(***************************************************************************)
(* gui/main_window.py: the Raster Settings dialog's values applied         *)
(***************************************************************************)
\* The orientation the combo index stands for.
orientation_of(index) == IF index = 0 THEN "horizontal" ELSE "vertical"

\* MainWindow.apply_raster_settings(settings): the dialog's values are assigned
\* to the fields of project.settings one by one; no constructor runs.
apply_raster_settings(d) ==
    /\ settings' = [settings EXCEPT !.raster_orientation = orientation_of(d.orientation),
                                    !.time_start = d.time_start,
                                    !.time_end = d.time_end,
                                    !.export_sampling_rate = d.sampling_rate,
                                    !.default_interpolation_order = d.poly_order,
                                    !.auto_interpolate = d.auto_interpolate,
                                    !.show_grid = d.show_grid]
    /\ UNCHANGED <<project_vars, file, gl, gui_vars>>

(***************************************************************************)
(* core/project.py: save and load                                          *)
(***************************************************************************)
\* No project file has been written.
\* models/raster_data.py: a SeismogramRaster is known by its image_path;
\* project.raster is None in a new project.
NoRasterData == [present |-> FALSE, image_path |-> ""]

SeismogramRaster(image_path) == [present |-> TRUE, image_path |-> image_path]

\* The image files on disk: the paths that exist, those of them PIL opens,
\* and the size of each image.
ExistingPaths == {"scan.png", "small.png", "anim.gif", "notes.txt"}

ImagePaths == {"scan.png", "small.png", "anim.gif"}

image_size(path) == IF path = "scan.png" THEN <<1200, 800>> ELSE <<600, 400>>

\* image.format, and image.info.get('dpi', (72, 72))[0]
image_format(path) == IF path = "anim.gif" THEN "GIF" ELSE "PNG"

image_dpi(path) == IF path = "scan.png" THEN 300 ELSE 72

\* SeismogramRaster.load(load_full_image=False) raises when Image.open does.
raster_load_raises(r) == r.image_path \notin ImagePaths

\* SeismogramRaster.get_image_info(): {} when Image.open raises.
get_image_info(r) ==
    IF r.image_path \in ImagePaths THEN [ok |-> TRUE, size |-> image_size(r.image_path)]
    ELSE [ok |-> FALSE, size |-> <<0, 0>>]

NoFile == [saved |-> FALSE]

\* ndarray.tolist() and np.array(list); None stays None on both ways.
tolist(a) == IF a.kind = "None" THEN a ELSE [kind |-> "list", rows |-> a.rows]

np_array(l) == IF l.kind = "None" THEN NoArray ELSE [kind |-> "ndarray", rows |-> l.rows]

\* One entry of _serialize_intervals: the dict of the interval's fields.
serialize_interval(iv) ==
    [id |-> iv.id, type |-> iv.type,
     points |-> [k \in 1..Len(iv.points) |->
                    [x_px |-> iv.points[k].x_px, y_px |-> iv.points[k].y_px,
                     t_val |-> iv.points[k].t_val, a_val |-> iv.points[k].a_val]],
     interpolated_points |-> tolist(iv.interpolated_points),
     color |-> iv.color, polynomial_order |-> iv.polynomial_order,
     time_correction |-> iv.time_correction,
     amplitude_correction |-> iv.amplitude_correction]

serialize_intervals(ivs) == [k \in 1..Len(ivs) |-> serialize_interval(ivs[k])]

\* _serialize_traces over project.traces (a sequence of handles).
serialize_traces(ts) ==
    [k \in 1..Len(ts) |->
        [id |-> trace_objs[ts[k]].id, name |-> trace_objs[ts[k]].name,
         raster_coords |-> trace_objs[ts[k]].raster_coords,
         intervals |-> serialize_intervals(trace_objs[ts[k]].intervals)]]

\* The interval _deserialize_intervals builds from the dict d: a new object o.
deserialize_interval(o, d) ==
    [obj |-> o, id |-> d.id, type |-> d.type,
     points |-> [k \in 1..Len(d.points) |->
                    [x_px |-> d.points[k].x_px, y_px |-> d.points[k].y_px,
                     t_val |-> d.points[k].t_val, a_val |-> d.points[k].a_val]],
     interpolated_points |-> np_array(d.interpolated_points),
     color |-> d.color, polynomial_order |-> d.polynomial_order,
     time_correction |-> d.time_correction,
     amplitude_correction |-> d.amplitude_correction]

\* The objects are numbered from base + 1 in list order.
deserialize_intervals(base, data) ==
    [k \in 1..Len(data) |-> deserialize_interval(base + k, data[k])]

\* Number of intervals in the first n serialized traces.
RECURSIVE IntervalsBefore(_, _)
IntervalsBefore(data, n) ==
    IF n = 0 THEN 0 ELSE IntervalsBefore(data, n - 1) + Len(data[n].intervals)

\* _deserialize_traces: one new SeismicTrace object per entry.
deserialize_traces(data) ==
    [k \in 1..Len(data) |->
        SeismicTrace(data[k].id, data[k].name, data[k].raster_coords,
                     deserialize_intervals(IntervalsBefore(data, k - 1), data[k].intervals))]

\* DigitizationProject.save(filepath); writable says whether open(filepath, 'wb')
\* succeeds.  The project in memory keeps its traces, counters and settings.
save_result(writable) == writable

save_file(writable) ==
    /\ file' = IF writable
               THEN [saved |-> TRUE,
                     metadata |-> [total_points |-> total_points,
                                   total_intervals |-> total_intervals],
                     traces |-> serialize_traces(traces),
                     loose_intervals |-> serialize_intervals(loose_intervals),
                     settings |-> settings,
                     raster_info |-> [path |-> IF raster.present THEN raster.image_path
                                               ELSE None]]
               ELSE file

save(writable) == save_file(writable) /\ UNCHANGED <<project_vars, settings, gl, gui_vars>>

\* MainWindow.open_project: self.project = DigitizationProject.load(filepath).
\* The loaded project replaces the one in memory, whose objects are dropped;
\* when the file cannot be read load raises and the project stays.
load_project ==
    /\ IF ~file.saved
       THEN UNCHANGED <<project_vars, settings, raster>>
       ELSE /\ raster' = IF file.raster_info.path # None
                         THEN SeismogramRaster(file.raster_info.path) ELSE NoRasterData
            /\ trace_objs' = deserialize_traces(file.traces)
            /\ traces' = [k \in 1..Len(file.traces) |-> k]
            /\ loose_intervals' =
                   deserialize_intervals(IntervalsBefore(file.traces, Len(file.traces)),
                                         file.loose_intervals)
            /\ next_obj' = IntervalsBefore(file.traces, Len(file.traces)) +
                           Len(file.loose_intervals)
            /\ total_points' = file.metadata.total_points
            /\ total_intervals' = file.metadata.total_intervals
            /\ settings' = WorkspaceSettings(file.settings.raster_orientation,
                                             file.settings.time_start,
                                             file.settings.time_end,
                                             file.settings.export_sampling_rate,
                                             file.settings.default_interpolation_order,
                                             file.settings.auto_interpolate,
                                             file.settings.show_grid)
    /\ UNCHANGED file

load == load_project /\ UNCHANGED <<gl, curves_file, tile_manager, canvas, window, tool_vars>>
(***************************************************************************)
(* gl_widget.py: the GLWidget with its first raster object at scene       *)
(* position (0, 0), not rotated, zoom 1 and no pan, so that widget, scene  *)
(* and the object's local coordinates coincide.  A point is <<x, y>>.      *)
(* is_active is the set of raster objects whose is_active flag is set.     *)
(* The fields used only for dragging and painting (dragging, last_pos,     *)
(* hovered_object, selection_area) are left out.                           *)
(***************************************************************************)
BorderThreshold == 15     \* is_on_border(local_pos, threshold=15)
CornerThreshold == 15     \* snap_to_border(..., corner_threshold=15, ...)
EdgeThreshold == 10       \* snap_to_border(..., edge_threshold=10)
ClosureDistance == 15     \* manhattanLength() < 15
MaxPolygonPoints == 4     \* if len(self.cutting_polygon.points) < 4
FinalPolygonPoints == 5   \* len(self.cutting_polygon.points) != 5
MinClosablePoints == 3    \* if len(self.cutting_polygon.points) >= 3
MinCurvePoints == 2       \* len(self.current_curve.points) < 2

Abs(x) == IF x < 0 THEN 0 - x ELSE x

\* QPointF.manhattanLength of a - b
manhattanLength(a, b) == Abs(a[1] - b[1]) + Abs(a[2] - b[2])

\* CuttingPolygon() and CuttingPolygon.reset()
EmptyPolygon == [points |-> <<>>, active |-> FALSE, closed |-> FALSE]

\* self.current_color and the default line_width of a VectorCurve.
CurrentColor == <<1, 0, 0, 1>>

DefaultLineWidth == 2

\* current_curve None, and VectorCurve(raster_object, self.current_color) with
\* the points pts appended to it.
NoCurve == [present |-> FALSE, points |-> <<>>]

VectorCurve(ro, pts) ==
    [present |-> TRUE, raster_object |-> ro, points |-> pts, color |-> CurrentColor,
     line_width |-> DefaultLineWidth, completed |-> FALSE]

\* The VectorCurve finish_current_curve commits: a copy of c marked completed.
completed_curve(c) ==
    [raster_object |-> c.raster_object, points |-> c.points, color |-> c.color,
     line_width |-> c.line_width, completed |-> TRUE]

\* active_object None.
NoRaster == 0

\* RasterObject.contains_point for the object of size sz.
contains_point(sz, p) == 0 <= p[1] /\ p[1] <= sz[1] /\ 0 <= p[2] /\ p[2] <= sz[2]

\* RasterObject.is_on_border(point, threshold)
is_on_border(sz, p, threshold) ==
    \/ Abs(p[1]) < threshold
    \/ Abs(p[2]) < threshold
    \/ Abs(p[1] - sz[1]) < threshold
    \/ Abs(p[2] - sz[2]) < threshold

\* The corners in the order snap_to_border scans them.
corners(sz) == << <<0, 0>>, <<sz[1], 0>>, <<sz[1], sz[2]>>, <<0, sz[2]>> >>

squared_distance(p, c) == (p[1] - c[1]) * (p[1] - c[1]) + (p[2] - c[2]) * (p[2] - c[2])

\* The first corner at the least squared distance (if dist < min_corner_dist).
nearest_corner(sz, p) ==
    corners(sz)[CHOOSE k \in 1..4 :
        /\ \A j \in 1..4 : squared_distance(p, corners(sz)[k]) <= squared_distance(p, corners(sz)[j])
        /\ \A j \in 1..(k - 1) : squared_distance(p, corners(sz)[j]) > squared_distance(p, corners(sz)[k])]

Min4(a, b, c, d) == Min(Min(a, b), Min(c, d))

\* RasterObject.snap_to_border(point): corners first, then the nearest edge.
snap_to_border(sz, p) ==
    IF squared_distance(p, nearest_corner(sz, p)) <= CornerThreshold * CornerThreshold
    THEN nearest_corner(sz, p)
    ELSE IF Min4(Abs(p[1]), Abs(p[1] - sz[1]), Abs(p[2]), Abs(p[2] - sz[2])) > EdgeThreshold
    THEN p
    ELSE IF Min4(Abs(p[1]), Abs(p[1] - sz[1]), Abs(p[2]), Abs(p[2] - sz[2])) = Abs(p[1])
    THEN <<0, p[2]>>
    ELSE IF Min4(Abs(p[1]), Abs(p[1] - sz[1]), Abs(p[2]), Abs(p[2] - sz[2])) = Abs(p[1] - sz[1])
    THEN <<sz[1], p[2]>>
    ELSE IF Min4(Abs(p[1]), Abs(p[1] - sz[1]), Abs(p[2]), Abs(p[2] - sz[2])) = Abs(p[2])
    THEN <<p[1], 0>>
    ELSE <<p[1], sz[2]>>

\* GLWidget.__init__ followed by load_image of an image of size sz.
ImagePath == [dir |-> "scans", base |-> "a.png"]

GLWidget(sz) ==
    [mode_move |-> TRUE, selection_mode |-> FALSE, cut_mode |-> FALSE,
     vectorization_mode |-> FALSE, active_object |-> NoRaster, is_active |-> {},
     raster_objects |-> <<ImagePath>>, size |-> sz, loaded_size |-> sz, cuts |-> 0,
     cutting_polygon |-> EmptyPolygon, current_curve |-> NoCurve, curves |-> <<>>]

\* add_image places each further image 20 / zoom to the right of and below
\* the last one; the first one is at (0, 0).
AddedOffset == 20

object_position(k) == <<AddedOffset * (k - 1), AddedOffset * (k - 1)>>

\* The size of the k-th raster object: images are loaded with the same size,
\* and only the first one is ever cut.
object_size(g, k) == IF k = 1 THEN g.size ELSE g.loaded_size

\* for obj in reversed(self.raster_objects): if obj.contains_point(scene_pos)
object_at(g, p) ==
    LET under == {k \in 1..Len(g.raster_objects) :
                     contains_point(object_size(g, k),
                                    <<p[1] - object_position(k)[1], p[2] - object_position(k)[2]>>)}
    IN IF under = {} THEN NoRaster ELSE CHOOSE k \in under : \A j \in under : j <= k

\* GLWidget._scene_to_raster_local for the active object (not rotated).
scene_to_raster_local(g, p) ==
    <<p[1] - object_position(g.active_object)[1], p[2] - object_position(g.active_object)[2]>>

\* GLWidget.add_image(file_path) of an image that loads.
add_image_effect(g, path) == [g EXCEPT !.raster_objects = Append(@, path)]

add_image(path) ==
    /\ gl' = add_image_effect(gl, path)
    /\ UNCHANGED <<project_vars, settings, file, gui_vars>>

\* GLWidget.set_mode_move(enabled)
set_mode_move_effect(g, enabled) ==
    IF enabled
    THEN [g EXCEPT !.mode_move = TRUE, !.vectorization_mode = FALSE,
                   !.is_active = @ \ {g.active_object},
                   !.active_object = NoRaster, !.selection_mode = FALSE]
    ELSE [g EXCEPT !.mode_move = FALSE, !.vectorization_mode = FALSE,
                   !.selection_mode = TRUE]

set_mode_move(enabled) ==
    /\ gl' = set_mode_move_effect(gl, enabled)
    /\ UNCHANGED <<project_vars, settings, file, gui_vars>>

\* GLWidget.set_cut_mode(enabled)
set_cut_mode_effect(g, enabled) ==
    [g EXCEPT !.cutting_polygon = IF g.cut_mode \/ ~enabled THEN EmptyPolygon ELSE @,
              !.cut_mode = enabled,
              !.selection_mode = IF enabled THEN TRUE ELSE @,
              !.is_active = IF enabled THEN @ ELSE @ \ {g.active_object},
              !.active_object = IF enabled THEN @ ELSE NoRaster]

\* GLWidget.set_selection_enabled(enabled)
set_selection_enabled_effect(g, enabled) ==
    IF enabled THEN [g EXCEPT !.selection_mode = TRUE]
    ELSE [g EXCEPT !.selection_mode = FALSE,
                   !.is_active = @ \ {g.active_object},
                   !.active_object = NoRaster]

set_selection_enabled(enabled) ==
    /\ gl' = set_selection_enabled_effect(gl, enabled)
    /\ UNCHANGED <<project_vars, settings, file, gui_vars>>

set_cut_mode(enabled) ==
    /\ gl' = set_cut_mode_effect(gl, enabled)
    /\ UNCHANGED <<project_vars, settings, file, gui_vars>>

\* GLWidget.start_vectorization(): refused without an active object.
start_vectorization_effect(g) ==
    IF g.active_object = NoRaster THEN g
    ELSE [g EXCEPT !.vectorization_mode = TRUE,
                   !.current_curve = VectorCurve(g.active_object, <<>>)]

start_vectorization ==
    /\ gl' = start_vectorization_effect(gl)
    /\ UNCHANGED <<project_vars, settings, file, gui_vars>>

\* finish_current_curve without the test on the number of points.
finish_current_curve_any(g) ==
    IF ~g.current_curve.present THEN g
    ELSE [g EXCEPT !.curves = Append(@, completed_curve(g.current_curve)),
                   !.current_curve = NoCurve]

\* GLWidget.finish_current_curve()
finish_current_curve(g) ==
    IF ~g.current_curve.present \/ Len(g.current_curve.points) < MinCurvePoints
    THEN g
    ELSE [g EXCEPT !.curves = Append(@, completed_curve(g.current_curve)),
                   !.current_curve = NoCurve]

\* GLWidget.finish_vectorization()
finish_vectorization_effect(g) ==
    [(IF g.current_curve.present THEN finish_current_curve(g) ELSE g)
        EXCEPT !.current_curve = NoCurve, !.vectorization_mode = FALSE]

finish_vectorization ==
    /\ gl' = finish_vectorization_effect(gl)
    /\ UNCHANGED <<project_vars, settings, file, gui_vars>>
\* GLWidget._finalize_cutting(): nothing unless a raster is active and the
\* polygon has exactly five points; otherwise the raster's tiles and size
\* become those of the trimmed cut result (size sz) and the polygon is reset.
finalize_cutting(g, sz) ==
    IF g.active_object = NoRaster \/ Len(g.cutting_polygon.points) # FinalPolygonPoints
    THEN g
    ELSE [g EXCEPT !.cuts = @ + 1, !.size = sz, !.cutting_polygon = EmptyPolygon]

\* mouseDoubleClickEvent, first part: the raster under the click becomes the
\* active one, a click on no raster clears the active one.
select_on_double_click(g, button, p) ==
    IF ~g.mode_move /\ g.selection_mode /\ button = "Left"
    THEN [g EXCEPT !.active_object = object_at(g, p),
                   !.is_active = IF object_at(g, p) = NoRaster
                                 THEN @ \ {g.active_object}
                                 ELSE (@ \ {g.active_object}) \cup {object_at(g, p)}]
    ELSE g

\* mouseDoubleClickEvent, second part: in vectorization mode the curve is finished.
finish_on_double_click(g, button) ==
    IF g.vectorization_mode /\ button = "Left" THEN finish_current_curve(g) ELSE g

\* The polygon logic for the snapped position sp: start, close or append.
polygon_step(g, sp, sz) ==
    IF ~g.cutting_polygon.active
    THEN [g EXCEPT !.cutting_polygon.active = TRUE, !.cutting_polygon.points = <<sp>>]
    ELSE IF Len(g.cutting_polygon.points) >= 1
            /\ manhattanLength(sp, g.cutting_polygon.points[1]) < ClosureDistance
    THEN IF Len(g.cutting_polygon.points) >= MinClosablePoints
         THEN finalize_cutting([g EXCEPT !.cutting_polygon.points =
                                             Append(@, g.cutting_polygon.points[1]),
                                         !.cutting_polygon.closed = TRUE], sz)
         ELSE g
    ELSE IF Len(g.cutting_polygon.points) < MaxPolygonPoints
    THEN [g EXCEPT !.cutting_polygon.points = Append(@, sp)]
    ELSE g

\* mouseDoubleClickEvent, third part: the cut-mode branch.
cut_on_double_click(g, button, p, sz) ==
    IF ~g.cut_mode \/ button # "Left" THEN g
    ELSE IF g.active_object = NoRaster /\ ~contains_point(g.size, p) THEN g
    ELSE IF ~is_on_border(g.size, p, BorderThreshold)
    THEN [g EXCEPT !.active_object = 1]
    ELSE polygon_step([g EXCEPT !.active_object = 1], snap_to_border(g.size, p), sz)

\* GLWidget.mouseDoubleClickEvent(event) with the button and the position of
\* the event; sz is the size of the trimmed image should the cut be finalized.
mouseDoubleClickEvent(button, p, sz) ==
    /\ gl' = cut_on_double_click(
                 finish_on_double_click(select_on_double_click(gl, button, p), button),
                 button, p, sz)
    /\ UNCHANGED <<project_vars, settings, file, gui_vars>>

\* mousePressEvent, first part: a left press outside move mode makes the
\* raster under the press the active one (None when there is none); a right
\* press drops a polygon in progress.
pick_on_press(g, button, p) ==
    IF button = "Left"
    THEN IF g.mode_move THEN g
         ELSE [g EXCEPT !.active_object = object_at(g, p)]
    ELSE IF button = "Right" /\ g.cutting_polygon.active
    THEN [g EXCEPT !.cutting_polygon = EmptyPolygon]
    ELSE g

\* current_curve.points.append(local_pos), the curve created when there is none.
append_point(g, p) ==
    [g EXCEPT !.current_curve =
                  IF g.current_curve.present
                  THEN [g.current_curve EXCEPT !.points = Append(@, p)]
                  ELSE VectorCurve(g.active_object, <<p>>)]

\* mousePressEvent, second part (if event.button() == Qt.LeftButton and
\* self.vectorization_mode): without an active raster the conversion of the
\* position raises inside the try block and nothing is appended.
first_append_on_press(g, button, p) ==
    IF button = "Left" /\ g.vectorization_mode /\ g.active_object # NoRaster
    THEN append_point(g, scene_to_raster_local(g, p))
    ELSE g

\* mousePressEvent, third part (if event.button() == Qt.LeftButton: ...
\* if self.vectorization_mode and self.active_object).
second_append_on_press(g, button, p) ==
    IF button = "Left" /\ g.vectorization_mode /\ g.active_object # NoRaster
    THEN append_point(g, scene_to_raster_local(g, p))
    ELSE g

\* GLWidget.mousePressEvent(event)
mousePressEvent(button, p) ==
    /\ gl' = second_append_on_press(
                 first_append_on_press(pick_on_press(gl, button, p), button, p),
                 button, p)
    /\ UNCHANGED <<project_vars, settings, file, gui_vars>>
(***************************************************************************)
(* gl_widget.py: the committed curves and the curve file.  raster_objects  *)
(* holds the file_path of each RasterObject, a path being a directory and  *)
(* a base name; active_object is the position of the active one.           *)
(***************************************************************************)
\* os.path.basename
basename(path) == path.base

\* GLWidget.clear_last_curve()
clear_last_curve_effect(g) ==
    IF g.curves = <<>> THEN g
    ELSE [g EXCEPT !.curves = SubSeq(@, 1, Len(@) - 1)]

clear_last_curve ==
    /\ gl' = clear_last_curve_effect(gl)
    /\ UNCHANGED <<project_vars, settings, file, gui_vars>>

\* GLWidget.clear_all_curves()
clear_all_curves_effect(g) == [g EXCEPT !.curves = <<>>, !.current_curve = NoCurve]

clear_all_curves ==
    /\ gl' = clear_all_curves_effect(gl)
    /\ UNCHANGED <<project_vars, settings, file, gui_vars>>

\* The points save_curves_to_file keeps: a point equal to the one kept before
\* it is dropped.
RECURSIVE unique_points(_)
unique_points(pts) ==
    IF Len(pts) <= 1 THEN pts
    ELSE LET u == unique_points(SubSeq(pts, 1, Len(pts) - 1))
         IN IF pts[Len(pts)] = u[Len(u)] THEN u ELSE Append(u, pts[Len(pts)])

\* f"{x:.2f}": the text of a coordinate, held as its number of hundredths
\* (the coordinates of the model are whole pixels), and float() of the text.
format_2f(x) == 100 * x

float_of(text) == text \div 100

points_str(pts) == [k \in 1..Len(pts) |-> <<format_2f(pts[k][1]), format_2f(pts[k][2])>>]

\* The [curve_i] section written for the curve c at position i - 1.
curve_section(i, c) ==
    [index |-> i - 1, color |-> c.color, width |-> c.line_width,
     points |-> points_str(unique_points(c.points))]

\* The text save_curves_to_file writes: the [raster] section from
\* raster_objects[0] and one section per curve that has points.
curves_text(g) ==
    [written |-> TRUE,
     raster |-> IF g.raster_objects = <<>> THEN [present |-> FALSE, file_path |-> ""]
                ELSE [present |-> TRUE, file_path |-> basename(g.raster_objects[1])],
     curves |-> LET kept == SelectSeq([i \in 1..Len(g.curves) |-> i],
                                      LAMBDA i : g.curves[i].points # <<>>)
                IN [k \in 1..Len(kept) |-> curve_section(kept[k], g.curves[kept[k]])]]

\* GLWidget.save_curves_to_file(file_path): False without curves or when the
\* file cannot be written.
save_curves_result(g, writable) == g.curves # <<>> /\ writable

save_curves_to_file(writable) ==
    /\ curves_file' = IF save_curves_result(gl, writable) THEN curves_text(gl) ELSE curves_file
    /\ UNCHANGED <<project_vars, settings, file, gl, tile_manager, canvas, raster, window, tool_vars>>

\* The VectorCurve load_curves_from_file builds from one section, for the
\* active object ro.
loaded_curve(ro, sec) ==
    [raster_object |-> ro,
     points |-> [k \in 1..Len(sec.points) |->
                    <<float_of(sec.points[k][1]), float_of(sec.points[k][2])>>],
     color |-> sec.color, line_width |-> sec.width, completed |-> TRUE]

\* The curves of the file that have at least two points.
loaded_curves(g, text) ==
    SelectSeq([k \in 1..Len(text.curves) |-> loaded_curve(g.active_object, text.curves[k])],
              LAMBDA c : Len(c.points) >= MinCurvePoints)

\* load_curves_from_file raises before it touches self.curves: the file is
\* missing, no raster is active, the text has no [raster] section, or the
\* saved name is not the base name of the active raster's path.
load_refused(g, text) ==
    \/ ~text.written
    \/ g.active_object = NoRaster
    \/ ~text.raster.present
    \/ text.raster.file_path # basename(g.raster_objects[g.active_object])

\* True when it returns True; it raises otherwise.
load_curves_result(g, text) == ~load_refused(g, text) /\ loaded_curves(g, text) # <<>>

load_curves_effect(g, text) ==
    IF load_refused(g, text) THEN g ELSE [g EXCEPT !.curves = loaded_curves(g, text)]

\* GLWidget.load_curves_from_file(file_path)
load_curves_from_file ==
    /\ gl' = load_curves_effect(gl, curves_file)
    /\ UNCHANGED <<project_vars, settings, file, gui_vars>>

(***************************************************************************)
(* tile_manager.py.  An image buffer is a sequence of rows, each a         *)
(* sequence of pixels (one number stands for the four channels); row r and *)
(* column c of numpy are row r + 1 and column c + 1 here.                  *)
(***************************************************************************)
DefaultTileSize == 1024

\* TileManager() with tile_size set to size.
TileManager(size) == [tiles |-> <<>>, tile_size |-> size, image_width |-> 0, image_height |-> 0]

SetMax(S) == CHOOSE m \in S : \A n \in S : n <= m

\* range(start, stop, step) as a sequence.
RECURSIVE range(_, _, _)
range(start, stop, step) ==
    IF start >= stop THEN <<>> ELSE <<start>> \o range(start + step, stop, step)

\* image_data[y:y + h, x:x + w]: a slice stops at the end of the array.
slice(data, y, h, x, w) ==
    [r \in 1..(Min(y + h, Len(data)) - y) |->
        [c \in 1..(Min(x + w, Len(data[1])) - x) |-> data[y + r][x + c]]]

\* tile_width = min(self.tile_size, img_width - x) without the clipping.
tile_extent_unclipped(size, total, at) == size

\* tile_width = min(self.tile_size, img_width - x), and tile_height likewise.
tile_extent(size, total, at) == Min(size, total - at)

Tile(x, y, width, height, image_data) ==
    [x |-> x, y |-> y, width |-> width, height |-> height, image_data |-> image_data]

\* The tiles split_into_tiles appends, row by row.
tiles_of(size, image_data, img_width, img_height) ==
    LET ys == range(0, img_height, size)
        xs == range(0, img_width, size)
    IN [k \in 1..(Len(ys) * Len(xs)) |->
           LET y == ys[((k - 1) \div Len(xs)) + 1]
               x == xs[((k - 1) % Len(xs)) + 1]
           IN Tile(x, y, tile_extent(size, img_width, x), tile_extent(size, img_height, y),
                   slice(image_data, y, tile_extent(size, img_height, y),
                         x, tile_extent(size, img_width, x)))]

\* TileManager.split_into_tiles(image_data, img_width, img_height) of an RGBA image.
split_into_tiles(image_data, img_width, img_height) ==
    /\ tile_manager' = [tile_manager EXCEPT
                            !.tiles = tiles_of(tile_manager.tile_size, image_data,
                                               img_width, img_height),
                            !.image_width = img_width, !.image_height = img_height]
    /\ UNCHANGED <<project_vars, settings, file, gl, curves_file, canvas, raster, window, tool_vars>>

\* combined[y:y + height, x:x + width] = tile.image_data raises ValueError
\* unless the buffer has the rectangle's rows and columns, or one row or one
\* column that NumPy repeats.
paste_raises(t) ==
    \/ Len(t.image_data) \notin {t.height, 1}
    \/ Len(t.image_data[1]) \notin {t.width, 1}

\* NumPy's zeros((height, width)) with the tiles pasted in list order: the
\* pixel of the last tile that covers the place, 0 where there is none.
combined(tiles) ==
    LET width == SetMax({tiles[k].x + tiles[k].width : k \in 1..Len(tiles)})
        height == SetMax({tiles[k].y + tiles[k].height : k \in 1..Len(tiles)})
        over(r, c) == {k \in 1..Len(tiles) :
                          /\ tiles[k].y < r /\ r <= tiles[k].y + tiles[k].height
                          /\ tiles[k].x < c /\ c <= tiles[k].x + tiles[k].width}
    IN [r \in 1..height |->
           [c \in 1..width |->
               IF over(r, c) = {} THEN 0
               ELSE LET t == tiles[SetMax(over(r, c))]
                        row == IF Len(t.image_data) = 1 THEN 1 ELSE r - t.y
                    IN t.image_data[row][IF Len(t.image_data[row]) = 1 THEN 1 ELSE c - t.x]]]

\* TileManager.get_combined_image(): None without tiles.
NoImage == [present |-> FALSE, data |-> <<>>]

combined_image(tm) ==
    IF tm.tiles = <<>> THEN NoImage ELSE [present |-> TRUE, data |-> combined(tm.tiles)]

\* get_combined_image() raises when the paste of one of its tiles does.
combined_image_raises(tm) == \E k \in 1..Len(tm.tiles) : paste_raises(tm.tiles[k])

get_combined_image == UNCHANGED <<project_vars, outside_project>>

min_tile_size == 2

\* _line_intersection(A, B, C, D) with its ccw
ccw(a, b, c) == (c[2] - a[2]) * (b[1] - a[1]) > (b[2] - a[2]) * (c[1] - a[1])

line_intersection(A, B, C, D) ==
    /\ ccw(A, C, D) # ccw(B, C, D)
    /\ ccw(A, B, C) # ccw(A, B, D)

\* _tile_intersects_line(tile, line_pt1, line_pt2)
tile_intersects_line(tile, line_pt1, line_pt2) ==
    LET tile_rect == << <<tile.x, tile.y>>, <<tile.x + tile.width, tile.y>>,
                        <<tile.x + tile.width, tile.y + tile.height>>,
                        <<tile.x, tile.y + tile.height>> >>
    IN \E i \in 0..3 :
           line_intersection(line_pt1, line_pt2, tile_rect[i + 1], tile_rect[((i + 1) % 4) + 1])

\* The four sub-tiles of prepare_for_cut, each with the tile's image_data.
sub_tiles(tile) ==
    LET half_w == tile.width \div 2
        half_h == tile.height \div 2
    IN << Tile(tile.x, tile.y, half_w, half_h, tile.image_data),
          Tile(tile.x + half_w, tile.y, tile.width - half_w, half_h, tile.image_data),
          Tile(tile.x, tile.y + half_h, half_w, tile.height - half_h, tile.image_data),
          Tile(tile.x + half_w, tile.y + half_h, tile.width - half_w, tile.height - half_h,
               tile.image_data) >>

\* The loop of prepare_for_cut over tiles_to_process, whose entries are all
\* unchecked: the sub-tiles go to the front of the queue in their order.
RECURSIVE cut_tiles(_, _, _, _)
cut_tiles(tiles_to_process, new_tiles, line_pt1, line_pt2) ==
    IF tiles_to_process = <<>> THEN new_tiles
    ELSE LET tile == Head(tiles_to_process)
         IN IF /\ tile_intersects_line(tile, line_pt1, line_pt2)
               /\ tile.width > min_tile_size
               /\ tile.height > min_tile_size
            THEN cut_tiles(sub_tiles(tile) \o Tail(tiles_to_process), new_tiles,
                           line_pt1, line_pt2)
            ELSE cut_tiles(Tail(tiles_to_process), Append(new_tiles, tile),
                           line_pt1, line_pt2)

\* TileManager.prepare_for_cut(line_pt1, line_pt2)
prepare_for_cut(line_pt1, line_pt2) ==
    /\ tile_manager' = [tile_manager EXCEPT
                            !.tiles = cut_tiles(tile_manager.tiles, <<>>, line_pt1, line_pt2)]
    /\ UNCHANGED <<project_vars, settings, file, gl, curves_file, canvas, raster, window, tool_vars>>

(***************************************************************************)
(* gui/raster_canvas.py: the OpenGLRasterWidget.  Its floats are modelled  *)
(* as exact fractions <<numerator, denominator>> with a positive           *)
(* denominator, in lowest terms.                                           *)
(***************************************************************************)
RECURSIVE Gcd(_, _)
Gcd(a, b) == IF b = 0 THEN a ELSE Gcd(b, a % b)

Frac(n, d) ==
    LET g == Gcd(Abs(n), Abs(d))
    IN IF d < 0 THEN <<(0 - n) \div g, (0 - d) \div g>> ELSE <<n \div g, d \div g>>

Whole(n) == <<n, 1>>

FAdd(a, b) == Frac(a[1] * b[2] + b[1] * a[2], a[2] * b[2])

FSub(a, b) == Frac(a[1] * b[2] - b[1] * a[2], a[2] * b[2])

FMul(a, b) == Frac(a[1] * b[1], a[2] * b[2])

FDiv(a, b) == Frac(a[1] * b[2], a[2] * b[1])

FLessEq(a, b) == a[1] * b[2] <= b[1] * a[2]

FMin(a, b) == IF FLessEq(a, b) THEN a ELSE b

FMax(a, b) == IF FLessEq(a, b) THEN b ELSE a

\* int(a // n) for a >= 0
FloorDiv(a, n) == a[1] \div (a[2] * n)

TileSide == 512           \* self.tile_size = (512, 512)
MarginDivisor == 4        \* margin = self.tile_size[0] // 4
MinScale == <<1, 100>>    \* max(0.01, ...)
MaxScale == <<100, 1>>    \* min(100.0, ...)
ZoomInFactor == <<5, 4>>  \* 1.25
ZoomOutFactor == <<4, 5>> \* 0.8
FitFactor == <<9, 10>>    \* 0.9

\* self.textures = {}: textures holds the tile positions that have a
\* texture, texture_source the image each of these textures was uploaded from.
NoTextures == [t \in {} |-> ""]

\* The cache once the tiles of kept are left and those of them that had no
\* texture have one uploaded from the widget's raster.
textures_from(c, kept) ==
    [t \in kept |-> IF t \in c.textures THEN c.texture_source[t] ELSE c.raster.image_path]

\* OpenGLRasterWidget.__init__ in a widget of the size wh.
OpenGLRasterWidget(wh) ==
    [raster |-> NoRasterData, textures |-> {}, texture_source |-> NoTextures,
     scale |-> Whole(1),
     translate_x |-> Whole(0), translate_y |-> Whole(0),
     image_width |-> 0, image_height |-> 0, needs_center_view |-> TRUE,
     width |-> wh[1], height |-> wh[2]]

\* get_visible_viewport(): the widget's rectangle in image coordinates,
\* clipped to the image.
get_visible_viewport(c) ==
    IF c.width = 0 \/ c.height = 0 THEN <<Whole(0), Whole(0), Whole(0), Whole(0)>>
    ELSE LET clip(v, hi) == FMax(Whole(0), FMin(v, Whole(hi)))
         IN << clip(FDiv(FSub(Whole(0), c.translate_x), c.scale), c.image_width),
               clip(FDiv(FSub(Whole(0), c.translate_y), c.scale), c.image_height),
               clip(FDiv(FSub(Whole(c.width), c.translate_x), c.scale), c.image_width),
               clip(FDiv(FSub(Whole(c.height), c.translate_y), c.scale), c.image_height) >>

\* calculate_needed_tiles(viewport)
calculate_needed_tiles(c, viewport) ==
    IF FLessEq(viewport[3], viewport[1]) \/ FLessEq(viewport[4], viewport[2]) THEN {}
    ELSE LET margin == Whole(TileSide \div MarginDivisor)
             x1 == FMax(Whole(0), FSub(viewport[1], margin))
             y1 == FMax(Whole(0), FSub(viewport[2], margin))
             x2 == FMin(Whole(c.image_width), FAdd(viewport[3], margin))
             y2 == FMin(Whole(c.image_height), FAdd(viewport[4], margin))
         IN (FloorDiv(x1, TileSide)..FloorDiv(x2, TileSide)) \X
            (FloorDiv(y1, TileSide)..FloorDiv(y2, TileSide))

\* load_tile(tile_pos) leaves a texture: raster.get_tile returns None for a
\* tile that starts outside the image, and reads says whether the reads and
\* the GL calls of this call complete without raising.
tile_loads(c, tile_pos, reads) ==
    /\ reads
    /\ tile_pos[1] * TileSide < c.image_width
    /\ tile_pos[2] * TileSide < c.image_height

\* The size of the image raster.get_tile(x, y, tile_w, tile_h) returns for a
\* tile that starts inside the image.
tile_image_size(c, tile_pos) ==
    << Min(TileSide, c.image_width - tile_pos[1] * TileSide),
       Min(TileSide, c.image_height - tile_pos[2] * TileSide) >>

RetrySide == 2048         \* if tile_image.width > 2048 or tile_image.height > 2048

\* The upload part of load_tile for a tile image of the given size:
\* first_error and retry_error say whether glGetError() reports an error
\* after the first glTexImage2D and after the one with the halved image.
\* uploads counts the glTexImage2D calls, recorded says whether
\* self.textures[tile_pos] is set, released whether glDeleteTextures is
\* called, accepted whether the last upload made was accepted.
load_tile_result(size, first_error, retry_error) ==
    IF ~first_error
    THEN [uploads |-> 1, recorded |-> TRUE, released |-> FALSE, accepted |-> TRUE]
    ELSE IF size[1] > RetrySide \/ size[2] > RetrySide
    THEN IF retry_error
         THEN [uploads |-> 2, recorded |-> FALSE, released |-> TRUE, accepted |-> FALSE]
         ELSE [uploads |-> 2, recorded |-> TRUE, released |-> FALSE, accepted |-> TRUE]
    ELSE [uploads |-> 1, recorded |-> TRUE, released |-> FALSE, accepted |-> FALSE]

\* load_tile(tile_pos), as load_visible_tiles calls it for a tile that has
\* no texture.
load_tile_effect(c, tile_pos, reads, first_error, retry_error) ==
    IF /\ tile_loads(c, tile_pos, reads)
       /\ load_tile_result(tile_image_size(c, tile_pos), first_error, retry_error).recorded
    THEN [c EXCEPT !.textures = @ \cup {tile_pos},
                   !.texture_source = textures_from(c, c.textures \cup {tile_pos})]
    ELSE c

\* load_visible_tiles()
load_visible_tiles(c, reads) ==
    IF ~c.raster.present \/ c.image_width = 0 \/ c.image_height = 0 THEN c
    ELSE LET viewport == get_visible_viewport(c)
             needed == calculate_needed_tiles(c, viewport)
         IN IF FLessEq(viewport[3], viewport[1]) \/ FLessEq(viewport[4], viewport[2]) THEN c
            ELSE LET kept == {t \in needed : t \in c.textures \/ tile_loads(c, t, reads)}
                 IN [c EXCEPT !.textures = kept, !.texture_source = textures_from(c, kept)]

\* center_view()
center_view(c, reads) ==
    IF c.image_width = 0 \/ c.image_height = 0 \/ c.width = 0 \/ c.height = 0 THEN c
    ELSE LET scale == FMul(FMin(Frac(c.width, c.image_width), Frac(c.height, c.image_height)),
                           FitFactor)
             half(v) == FDiv(v, Whole(2))
         IN load_visible_tiles(
                [c EXCEPT !.scale = scale,
                          !.translate_x = half(FSub(Whole(c.width), FMul(Whole(c.image_width), scale))),
                          !.translate_y = half(FSub(Whole(c.height), FMul(Whole(c.image_height), scale)))],
                reads)

canvas_unchanged ==
    <<project_vars, settings, file, gl, curves_file, tile_manager, raster, window, tool_vars>>

\* OpenGLRasterWidget.set_raster(raster): False for None and for a raster
\* whose get_image_info() is empty, which is the widget's raster all the same.
set_raster_result(r) == r.present /\ get_image_info(r).ok

set_raster_effect(c, r, reads) ==
    IF ~r.present THEN c
    ELSE IF ~get_image_info(r).ok THEN [c EXCEPT !.raster = r]
    ELSE load_visible_tiles(
             [c EXCEPT !.raster = r,
                       !.image_width = get_image_info(r).size[1],
                       !.image_height = get_image_info(r).size[2],
                       !.scale = Whole(1), !.translate_x = Whole(0),
                       !.translate_y = Whole(0), !.needs_center_view = TRUE],
             reads)

set_raster(r, reads) ==
    /\ canvas' = set_raster_effect(canvas, r, reads)
    /\ UNCHANGED canvas_unchanged

\* resizeGL(width, height): the widget has the new size.
resizeGL(wh, reads) ==
    /\ canvas' = LET c == [canvas EXCEPT !.width = wh[1], !.height = wh[2]]
                 IN load_visible_tiles(
                        IF c.image_width > 0 /\ c.image_height > 0 THEN center_view(c, reads) ELSE c,
                        reads)
    /\ UNCHANGED canvas_unchanged

\* paintGL(): the first paint with an image centres the view.
paintGL(reads) ==
    /\ canvas' = IF canvas.image_width = 0 \/ canvas.image_height = 0 \/ ~canvas.needs_center_view
                 THEN canvas
                 ELSE [center_view(canvas, reads) EXCEPT !.needs_center_view = FALSE]
    /\ UNCHANGED canvas_unchanged

\* max(0.01, min(100.0, scale))
clamp_scale(v) == FMax(MinScale, FMin(MaxScale, v))

\* wheelEvent(event): up says angleDelta().y() > 0, mouse is the cursor position.
wheelEvent_effect(c, up, mouse, reads) ==
    IF c.image_width = 0 \/ c.image_height = 0 THEN c
    ELSE LET new_scale == clamp_scale(FMul(c.scale, IF up THEN ZoomInFactor ELSE ZoomOutFactor))
             shift(m, t) == FMul(FSub(FDiv(FSub(Whole(m), t), new_scale),
                                      FDiv(FSub(Whole(m), t), c.scale)), new_scale)
         IN load_visible_tiles(
                [c EXCEPT !.scale = new_scale,
                          !.translate_x = FAdd(@, shift(mouse[1], c.translate_x)),
                          !.translate_y = FAdd(@, shift(mouse[2], c.translate_y))],
                reads)

wheelEvent(up, mouse, reads) ==
    /\ canvas' = wheelEvent_effect(canvas, up, mouse, reads)
    /\ UNCHANGED canvas_unchanged

\* mouseMoveEvent(event) with the left button held, d the move since the
\* last mouse event.
mouseMoveEvent(d, reads) ==
    /\ canvas' = load_visible_tiles(
                     [canvas EXCEPT !.translate_x = FAdd(@, Whole(d[1])),
                                    !.translate_y = FAdd(@, Whole(d[2]))],
                     reads)
    /\ UNCHANGED canvas_unchanged

zoom_in(reads) ==
    /\ canvas' = load_visible_tiles(
                     [canvas EXCEPT !.scale = FMin(MaxScale, FMul(@, ZoomInFactor))], reads)
    /\ UNCHANGED canvas_unchanged

zoom_out(reads) ==
    /\ canvas' = load_visible_tiles(
                     [canvas EXCEPT !.scale = FMax(MinScale, FMul(@, ZoomOutFactor))], reads)
    /\ UNCHANGED canvas_unchanged

zoom_original(reads) ==
    /\ canvas' = load_visible_tiles(
                     [canvas EXCEPT !.scale = Whole(1), !.translate_x = Whole(0),
                                    !.translate_y = Whole(0)], reads)
    /\ UNCHANGED canvas_unchanged

(***************************************************************************)
(* core/digitizer_engine.py: the DigitizerEngine bound to the project.  A  *)
(* batch_digitize call in progress is the list it was given, the number of *)
(* intervals it has passed (pos), whether it is about to digitize or to    *)
(* call back (pc), its results and the callback calls made so far.  A      *)
(* generate_time_marks call in progress is its arguments, current_time and *)
(* the time_marks appended so far.                                         *)
(***************************************************************************)
MinCorrectionSamples == 10

NoBatch == [intervals |-> <<>>, pos |-> 0, pc |-> "idle", results |-> <<>>, callbacks |-> <<>>,
            has_callback |-> FALSE]

\* No generate_time_marks call in progress.
NoMarks == [pc |-> "idle"]

DigitizerEngine == [auto_corrections_enabled |-> TRUE, batch |-> NoBatch, marks |-> NoMarks]

\* An amplitude array as regular_digitization and the interval's offset give it.
Amplitude(series) == [of |-> series, detrended |-> FALSE, breaks_fixed |-> FALSE]

\* _apply_auto_corrections(time, amplitude) on n samples; detrend_raises and
\* fix_raises say whether remove_trend and fix_trace_break raise.
apply_auto_corrections(amplitude, n, detrend_raises, fix_raises) ==
    IF n < MinCorrectionSamples THEN amplitude
    ELSE IF detrend_raises THEN amplitude
    ELSE IF fix_raises THEN [amplitude EXCEPT !.detrended = TRUE]
    ELSE [amplitude EXCEPT !.detrended = TRUE, !.breaks_fixed = TRUE]

\* digitize_interval(interval, apply_corrections=...): [ok |-> FALSE] stands
\* for the exception regular_digitization raises.
digitize_interval(e, iv, apply_corrections, n, detrend_raises, fix_raises) ==
    IF ~digitized(iv).ok THEN [ok |-> FALSE]
    ELSE [ok |-> TRUE, time |-> digitized(iv),
          amplitude |-> IF apply_corrections /\ e.auto_corrections_enabled
                        THEN apply_auto_corrections(Amplitude(digitized(iv)), n,
                                                    detrend_raises, fix_raises)
                        ELSE Amplitude(digitized(iv))]

engine_unchanged ==
    <<project_vars, settings, file, gl, curves_file, tile_manager, canvas, raster, window, loader>>

\* A batch that leaves failed intervals out of its results.
put_unless_failed(results, id, value) ==
    IF ~value.ok THEN results
    ELSE IF \E k \in 1..Len(results) : results[k].id = id
    THEN [k \in 1..Len(results) |->
             IF results[k].id = id THEN [id |-> id, value |-> value] ELSE results[k]]
    ELSE Append(results, [id |-> id, value |-> value])

\* results[interval.id] = value
put(results, id, value) ==
    IF \E k \in 1..Len(results) : results[k].id = id
    THEN [k \in 1..Len(results) |->
             IF results[k].id = id THEN [id |-> id, value |-> value] ELSE results[k]]
    ELSE Append(results, [id |-> id, value |-> value])

\* batch_digitize(intervals, progress_callback) is entered: results = {}.
batch_digitize(intervals, has_callback) ==
    /\ engine.batch.pc = "idle"
    /\ engine' = [engine EXCEPT !.batch =
                      [intervals |-> intervals, pos |-> 0,
                       pc |-> IF intervals = <<>> THEN "returned" ELSE "digitize",
                       results |-> <<>>, callbacks |-> <<>>, has_callback |-> has_callback]]
    /\ UNCHANGED engine_unchanged

\* The body of the loop up to the callback: the interval at pos + 1 is
\* digitized and its result, or (None, None), is recorded.
batch_record(n, detrend_raises, fix_raises) ==
    /\ engine.batch.pc = "digitize"
    /\ LET b == engine.batch
           iv == b.intervals[b.pos + 1]
           r == digitize_interval(engine, iv, TRUE, n, detrend_raises, fix_raises)
       IN engine' = [engine EXCEPT !.batch =
                        [b EXCEPT !.results = put(b.results, iv.id, r), !.pc = "callback"]]
    /\ UNCHANGED engine_unchanged

\* progress_callback(i + 1, total, interval.id) when there is a callback,
\* and the loop goes on to the next interval or returns.
batch_callback ==
    /\ engine.batch.pc = "callback"
    /\ LET b == engine.batch
           iv == b.intervals[b.pos + 1]
       IN engine' = [engine EXCEPT !.batch =
                        [b EXCEPT !.callbacks =
                                      IF b.has_callback
                                      THEN Append(@, <<b.pos + 1, Len(b.intervals), iv.id>>)
                                      ELSE @,
                                  !.pos = b.pos + 1,
                                  !.pc = IF b.pos + 1 = Len(b.intervals)
                                         THEN "returned" ELSE "digitize"]]
    /\ UNCHANGED engine_unchanged

\* The caller has the results; the engine is free for the next call.
batch_return ==
    /\ engine.batch.pc = "returned"
    /\ engine' = [engine EXCEPT !.batch = NoBatch]
    /\ UNCHANGED engine_unchanged

(***************************************************************************)
(* image_loader.py: the ImageLoader.                                       *)
(***************************************************************************)
ImageLoader == [image_data |-> NoImage, width |-> 0, height |-> 0, dpi |-> <<600, 600>>]

SupportedFormats == {"BMP", "TIFF", "PNG", "JPEG", "JPG"}

\* The exception raised inside the try block of load, or None.
load_error(file_path) ==
    IF file_path \notin ExistingPaths THEN "FileNotFoundError"
    ELSE IF file_path \notin ImagePaths THEN "UnidentifiedImageError"
    ELSE IF image_format(file_path) \notin SupportedFormats THEN "ValueError"
    ELSE None

\* What reaches the caller of load: the except clause catches every
\* Exception raised in the try block, so nothing is raised.
load_raised(file_path) == None

load_result(file_path) == load_error(file_path) = None

\* int(image.width * scale_factor) with scale_factor = target_dpi / original_dpi[0]
scaled(side, file_path, target_dpi) ==
    IF image_dpi(file_path) # target_dpi
    THEN (side * target_dpi) \div image_dpi(file_path) ELSE side

load_effect(l, file_path, target_dpi) ==
    IF load_error(file_path) # None THEN [l EXCEPT !.image_data = NoImage]
    ELSE [image_data |-> [present |-> TRUE, data |-> <<file_path>>],
          width |-> scaled(image_size(file_path)[1], file_path, target_dpi),
          height |-> scaled(image_size(file_path)[2], file_path, target_dpi),
          dpi |-> <<target_dpi, target_dpi>>]

\* ImageLoader.load(file_path, target_dpi)
loader_load(file_path, target_dpi) ==
    /\ loader' = load_effect(loader, file_path, target_dpi)
    /\ UNCHANGED <<project_vars, settings, file, gl, curves_file, tile_manager, canvas, raster,
                   window, engine>>

(***************************************************************************)
(* gui/main_window.py: the MainWindow's file handlers, and the RasterCanvas *)
(* that wraps the OpenGLRasterWidget.                                       *)
(***************************************************************************)
\* The one project file of the model, as the file dialogs return it.
ProjectFile == "survey.trace"

\* setWindowTitle(f"Seismogram Digitizer [{os.path.basename(filepath)}]")
TitleOf(name) == "Seismogram Digitizer [" \o name \o "]"

\* init_ui's title: the bracketed words are the source's Russian for
\* "new project".
StartTitle == TitleOf("new project")

\* new_project's title
PlainTitle == "Seismogram Digitizer"

\* MainWindow.__init__ and create_menu_bar: both menus start disabled.
\* title is the window title; project_path is self.project.project_path as
\* the File menu's handlers leave it.
MainWindow == [raster_menu |-> FALSE, traces_menu |-> FALSE, title |-> StartTitle,
               project_path |-> None]

\* enable_raster_menu(enabled)
enable_raster_menu(w, enabled) == [w EXCEPT !.raster_menu = enabled, !.traces_menu = enabled]

\* RasterCanvas.clear_scene()
clear_scene(c) ==
    [c EXCEPT !.raster = NoRasterData, !.image_width = 0, !.image_height = 0,
              !.textures = {}, !.texture_source = NoTextures]

\* new_project(): maybe_save() returns True.
new_project ==
    /\ trace_objs' = <<>>
    /\ traces' = <<>>
    /\ loose_intervals' = <<>>
    /\ total_intervals' = 0
    /\ total_points' = 0
    /\ next_obj' = 0
    /\ settings' = DefaultSettings
    /\ raster' = NoRasterData
    /\ canvas' = clear_scene(canvas)
    /\ window' = [window EXCEPT !.title = PlainTitle, !.project_path = None]
    /\ UNCHANGED <<file, gl, curves_file, tile_manager, tool_vars>>

\* What makes open_project's try block raise once a file is chosen: the
\* project file cannot be read, or the raster it names cannot be opened.
open_project_fails ==
    \/ ~file.saved
    \/ /\ file.raster_info.path # None
       /\ raster_load_raises(SeismogramRaster(file.raster_info.path))

\* open_project(): chosen says whether the file dialog returned the project
\* file.  A load that raises leaves the project; a raster whose load()
\* raises is the loaded project's raster but never reaches the canvas, and
\* the title is set after both.
open_project(chosen, reads) ==
    IF ~chosen THEN UNCHANGED <<project_vars, outside_project>>
    ELSE /\ load_project
         /\ canvas' = IF file.saved /\ raster'.present /\ ~raster_load_raises(raster')
                       THEN set_raster_effect(canvas, raster', reads)
                       ELSE canvas
         /\ window' = IF ~file.saved THEN window
                       ELSE [window EXCEPT
                                !.project_path = ProjectFile,
                                !.title = IF open_project_fails THEN @
                                          ELSE TitleOf(ProjectFile)]
         /\ UNCHANGED <<gl, curves_file, tile_manager, tool_vars>>

\* import_raster(): accepted says whether the import dialog was accepted,
\* filepath is the path it gives.
import_raster(accepted, filepath, reads) ==
    IF ~accepted \/ filepath = "" \/ filepath \notin ExistingPaths
    THEN UNCHANGED <<project_vars, outside_project>>
    ELSE LET r == SeismogramRaster(filepath)
             handed == ~raster_load_raises(r)
         IN /\ raster' = r
            /\ canvas' = IF handed THEN set_raster_effect(canvas, r, reads) ELSE canvas
            /\ window' = IF handed /\ set_raster_result(r)
                          THEN enable_raster_menu(window, TRUE) ELSE window
            /\ UNCHANGED <<project_vars, settings, file, gl, curves_file, tile_manager, tool_vars>>

\* save_project_as(): chosen says whether the file dialog returned a path.
\* DigitizationProject.save sets project_path before it writes.
save_project_as(chosen, writable) ==
    IF ~chosen THEN UNCHANGED <<project_vars, outside_project>>
    ELSE /\ save_file(writable)
         /\ window' = [window EXCEPT
                          !.project_path = ProjectFile,
                          !.title = IF save_result(writable) THEN TitleOf(ProjectFile) ELSE @]
         /\ UNCHANGED <<project_vars, settings, gl, curves_file, tile_manager, canvas, raster,
                        tool_vars>>

\* save_project(): to project_path when the project has one, else as
\* save_project_as().
save_project(chosen, writable) ==
    IF window.project_path = None THEN save_project_as(chosen, writable)
    ELSE save(writable)

\* clear_current_interval(): RasterCanvas defines no method
\* clear_current_interval either.
clear_current_interval == UNCHANGED <<project_vars, outside_project>>

\* SeismogramRaster.pil_image: None from the constructor, and load() as the
\* window and the project call it (use_tiling, load_full_image=False) reads
\* the metadata only and sets it to None again.
pil_image(r) == None

DefaultDetectCount == 3   \* QInputDialog.getInt(..., 3, 1, 10, 1)
MinDetectCount == 1
MaxDetectCount == 10
MarginDivisorOfDetect == 10   \* margin: float = 0.1

\* TraceManager.auto_detect_traces(num_traces) for the project's raster r:
\* the traces it returns, side by side between the margins, each under a
\* new id (the handle it will have).
detect_traces(r, num_traces) ==
    IF ~r.present \/ pil_image(r) = None THEN <<>>
    ELSE LET size == image_size(r.image_path)
             margin_x == size[1] \div MarginDivisorOfDetect
             margin_y == size[2] \div MarginDivisorOfDetect
             trace_width == Frac(size[1] - 2 * margin_x, num_traces)
             x(i) == FAdd(Whole(margin_x), FMul(Whole(i), trace_width))
         IN [i \in 1..num_traces |->
                SeismicTrace(Len(trace_objs) + i, "Auto_" \o ToString(i),
                             <<x(i - 1), Whole(margin_y), x(i), Whole(size[2] - margin_y)>>,
                             <<>>)]

\* auto_detect_traces(): ok says whether the count dialog was accepted and
\* num_traces is the count it gave.  Each trace found is added to the project
\* (project.add_trace: the traces have no intervals, the counters stay).
auto_detect_traces(ok, num_traces) ==
    IF ~ok THEN UNCHANGED <<project_vars, outside_project>>
    ELSE LET found == detect_traces(raster, num_traces)
         IN /\ trace_objs' = trace_objs \o found
            /\ traces' = traces \o [i \in 1..Len(found) |-> Len(trace_objs) + i]
            /\ UNCHANGED <<loose_intervals, total_intervals, total_points, next_obj,
                           outside_project>>

\* The exception that leaves each handler, None when it returns.  MainWindow
\* has no attribute traces_panel, the OpenGLRasterWidget no method
\* set_threshold, and a QDialog no statusBar().
finish_current_interval_escapes == "AttributeError"

clear_current_interval_escapes == "AttributeError"

auto_detect_traces_escapes(ok) == IF ok THEN "AttributeError" ELSE None

apply_raster_settings_escapes(threshold_enabled) ==
    IF threshold_enabled THEN "AttributeError" ELSE None

dialog_add_interval_escapes(tid) ==
    IF find_trace_by_id(tid) = 0 THEN None ELSE "AttributeError"

\* new_project, open_project, import_raster, save_project: what can raise in
\* them is inside a try block or returns a failure value.
file_handler_escapes == None

(***************************************************************************)
(* Inputs and initial values shared by the specifications.                 *)
(***************************************************************************)
\* An id no trace and no interval carries.
UnknownId == 9

TraceNameInputs == {"Trace 1"}

\* The image loaded into the GLWidget, and the sizes a trimmed cut can have.
RasterSize == <<40, 40>>

CutSizes == {<<40, 40>>, <<40, 20>>}

\* The ids of the traces in project.traces (the trace items of the tree).
ListedTraceIds == {trace_objs[traces[k]].id : k \in 1..Len(traces)}

\* The ids of the intervals of the trace found under tid.
IntervalIdsOf(tid) ==
    IF find_trace_by_id(tid) = 0 THEN {}
    ELSE {trace_objs[find_trace_by_id(tid)].intervals[k].id :
              k \in 1..Len(trace_objs[find_trace_by_id(tid)].intervals)}

\* The ids of the intervals of the trace object h.
IntervalIdsIn(h) == {trace_objs[h].intervals[k].id : k \in 1..Len(trace_objs[h].intervals)}

LooseIds == {loose_intervals[k].id : k \in 1..Len(loose_intervals)}

\* The range the model follows the counters in.
InCounterRange(ti, tp) ==
    /\ ti \in 0..MaxCount
    /\ tp \in 0..(3 * MaxCount)

\* Everything outside the project as the program starts it.
\* The size of the canvas widget as the window opens.
WidgetSize == <<600, 400>>

\* No curve file has been written.
NoCurvesFile == [written |-> FALSE]

GuiInit ==
    /\ curves_file = NoCurvesFile
    /\ tile_manager = TileManager(DefaultTileSize)
    /\ canvas = OpenGLRasterWidget(WidgetSize)
    /\ raster = NoRasterData
    /\ window = MainWindow
    /\ engine = DigitizerEngine
    /\ loader = ImageLoader

OutsideInit ==
    /\ settings = DefaultSettings
    /\ file = NoFile
    /\ gl = GLWidget(RasterSize)
    /\ GuiInit

(***************************************************************************)
(* Spec: the project as the trace manager, the panels and the dialogs       *)
(* drive it.                                                                *)
(***************************************************************************)
\* DigitizationProject(loose_intervals=...): a new project, empty or holding
\* one loose interval (as a loaded project does).
LooseInputs ==
    { <<>>,
      <<DigitizationInterval(1, 1, "waveform",
                             <<DigitizationPoint(2, 1), DigitizationPoint(0, 0), DigitizationPoint(1, 1)>>,
                             "#FF0000", 3, 0, 0)>> }

Init ==
    /\ trace_objs = <<>>
    /\ traces = <<>>
    /\ loose_intervals \in LooseInputs
    /\ total_intervals = 0
    /\ total_points = 0
    /\ next_obj = Len(loose_intervals)
    /\ OutsideInit
    /\ last = [op |-> "init"]

\* The intervals a caller passes to add_interval_to_trace: one that exists,
\* or one built for the call.
IntervalArguments ==
    ExistingIntervals \cup
    (IF next_obj < MaxIntervalObjs
     THEN {NewInterval(next_obj + 1, c) : c \in IntervalInputs}
     ELSE {})

Next ==
    \/ \E nm \in TraceNameInputs, rc \in RasterCoordsInputs :
           /\ Len(trace_objs) < MaxTraceObjs
           /\ create_trace(nm, rc)
           /\ UNCHANGED last
    \/ \E h \in TraceHandles :
           /\ Len(traces) < MaxLen
           /\ InCounterRange(total_intervals + Len(trace_objs[h].intervals),
                             total_points + SumPoints(trace_objs[h].intervals))
           /\ add_trace(h)
           /\ UNCHANGED last
    \/ \E i \in ListedTraceIds \cup {UnknownId} :
           /\ remove_trace(i)
           /\ InCounterRange(total_intervals', total_points')
           /\ UNCHANGED last
    \/ \E h \in TraceHandles : \E iv \in IntervalArguments :
           /\ Len(trace_objs[h].intervals) < MaxLen
           /\ InCounterRange(total_intervals + 1, total_points + Len(iv.points))
           /\ add_interval_to_trace(h, iv)
           /\ UNCHANGED last
    \/ \E h \in TraceHandles : \E ids \in SUBSET (IntervalIdsIn(h) \cup {UnknownId}) :
           /\ merge_result(h, ids) # NoObject => next_obj < MaxIntervalObjs
           /\ merge_intervals(h, ids)
           /\ UNCHANGED last
    \/ \E h \in TraceHandles : \E i \in IntervalIdsIn(h) \cup {UnknownId} :
       \E k \in 0..MaxLen :
           /\ split_result(h, i, k) # <<NoObject, NoObject>> =>
                  next_obj + 2 <= MaxIntervalObjs /\ Len(trace_objs[h].intervals) < MaxLen
           /\ split_interval(h, i, k)
           /\ UNCHANGED last
    \/ /\ finish_current_interval
       /\ UNCHANGED last
    \/ \E tid \in ListedTraceIds :
           /\ next_obj < MaxIntervalObjs
           /\ Len(trace_objs[find_trace_by_id(tid)].intervals) < MaxLen
           /\ dialog_add_interval(tid)
           /\ UNCHANGED last
    \/ \E tid \in ListedTraceIds :
           /\ dialog_delete_selected("trace", tid, UnknownId)
           /\ InCounterRange(total_intervals', total_points')
           /\ UNCHANGED last
    \/ \E tid \in ListedTraceIds : \E iid \in IntervalIdsOf(tid) :
           /\ dialog_delete_selected("interval", tid, iid)
           /\ UNCHANGED last
    \/ \E iid \in LooseIds :
           /\ dialog_delete_selected("interval", NoTrace, iid)
           /\ UNCHANGED last
    \/ \E tid \in ListedTraceIds :
           /\ panel_remove_selected("trace", tid, UnknownId)
           /\ UNCHANGED last
    \/ \E tid \in ListedTraceIds : \E iid \in IntervalIdsOf(tid) :
           /\ panel_remove_selected("interval", tid, iid)
           /\ UNCHANGED last
    \/ \E iid \in LooseIds :
           /\ panel_remove_selected("loose_interval", NoTrace, iid)
           /\ UNCHANGED last

Spec == Init /\ [][Next]_vars

(***************************************************************************)
(* SpecC1: a new project under add_trace and remove_trace alone.  The      *)
(* caller builds its traces with SeismicTrace(id, name, coords, intervals) *)
(* under ids of its choice; no interval list changes afterwards.           *)
(***************************************************************************)
MaxTraceIntervals == 2   \* intervals a caller gives a trace it builds

TraceIdInputs == {1, 2}

\* The interval contents a caller gives a trace: up to MaxTraceIntervals of them.
ContentLists ==
    UNION {[1..n -> IntervalInputs] : n \in 0..MaxTraceIntervals}

\* SeismicTrace(id=i, name=nm, raster_coords=rc, intervals=[...]): a new trace
\* object holding new intervals built from the contents cs.
new_trace(i, nm, rc, cs) ==
    /\ trace_objs' = Append(trace_objs,
           SeismicTrace(i, nm, rc, [k \in 1..Len(cs) |-> NewInterval(next_obj + k, cs[k])]))
    /\ next_obj' = next_obj + Len(cs)
    /\ UNCHANGED <<traces, loose_intervals, total_intervals, total_points, outside_project>>

InitC1 ==
    /\ trace_objs = <<>>
    /\ traces = <<>>
    /\ loose_intervals = <<>>
    /\ total_intervals = 0
    /\ total_points = 0
    /\ next_obj = 0
    /\ OutsideInit
    /\ last = [op |-> "init"]

NextC1 ==
    \/ \E i \in TraceIdInputs, nm \in TraceNameInputs, rc \in RasterCoordsInputs :
       \E cs \in ContentLists :
           /\ Len(trace_objs) < MaxTraceObjs
           /\ new_trace(i, nm, rc, cs)
           /\ last' = [op |-> "SeismicTrace"]
    \/ \E h \in TraceHandles :
           /\ Len(traces) < MaxLen
           /\ add_trace(h)
           /\ last' = [op |-> "add_trace", trace |-> h]
    \/ \E i \in TraceIdInputs \cup {UnknownId} :
           /\ remove_trace(i)
           /\ last' = [op |-> "remove_trace", trace_id |-> i, ret |-> remove_trace_result(i),
                       traces_before |-> traces,
                       total_intervals_before |-> total_intervals,
                       total_points_before |-> total_points]

SpecC1 == InitC1 /\ [][NextC1]_vars

(***************************************************************************)
(* SpecManager: merge_intervals and split_interval on a trace of a project *)
(* whose interval ids are unique within the trace.                         *)
(***************************************************************************)
MaxManagerLen == 3     \* intervals of the trace at the start
MaxManagerObjs == 5    \* DigitizationInterval objects constructed
MaxSplitIndex == 4     \* split_index runs over 0..MaxSplitIndex

\* The contents of the intervals: two, three and four points, x not in order.
ManagerInputs ==
    IntervalInputs \cup
    { [type |-> "time_marker",
       points |-> <<DigitizationPoint(0, 2), DigitizationPoint(4, 1), DigitizationPoint(3, 0),
                    DigitizationPoint(1, 1)>>,
       color |-> "#0000FF", polynomial_order |-> 1, time_correction |-> 2,
       amplitude_correction |-> 1] }

InitManager ==
    /\ \E n \in 0..MaxManagerLen : \E cs \in [1..n -> ManagerInputs] :
           /\ trace_objs = <<SeismicTrace(1, "Trace 1", <<4, 4, 0, 0>>,
                                          [k \in 1..n |-> NewInterval(k, cs[k])])>>
           /\ next_obj = n
    /\ traces = <<1>>
    /\ loose_intervals = <<>>
    /\ total_intervals = Len(trace_objs[1].intervals)
    /\ total_points = SumPoints(trace_objs[1].intervals)
    /\ OutsideInit
    /\ last = [op |-> "init"]

NextManager ==
    \/ \E h \in TraceHandles : \E ids \in SUBSET (IntervalIdsIn(h) \cup {UnknownId}) :
           /\ merge_result(h, ids) # NoObject => next_obj < MaxManagerObjs
           /\ merge_intervals(h, ids)
           /\ last' = [op |-> "merge_intervals", trace |-> h, ids |-> ids,
                       ret |-> merge_result(h, ids), before |-> trace_objs[h].intervals]
    \/ \E h \in TraceHandles : \E i \in IntervalIdsIn(h) \cup {UnknownId} :
       \E k \in 0..MaxSplitIndex :
           /\ split_result(h, i, k) # <<NoObject, NoObject>> =>
                  next_obj + 2 <= MaxManagerObjs
           /\ split_interval(h, i, k)
           /\ last' = [op |-> "split_interval", trace |-> h, id |-> i, k |-> k,
                       ret |-> split_result(h, i, k), before |-> trace_objs[h].intervals]

SpecManager == InitManager /\ [][NextManager]_vars

(***************************************************************************)
(* Properties of the trace bookkeeping and of the trace manager.           *)
(***************************************************************************)
\* len(trace.intervals) summed over the entries of a trace list.
RECURSIVE CountedIntervals(_)
CountedIntervals(ts) ==
    IF ts = <<>> THEN 0
    ELSE Len(trace_objs[Head(ts)].intervals) + CountedIntervals(Tail(ts))

\* The number of points of one interval list.
RECURSIVE PointCount(_, _)
PointCount(ivs, n) ==
    IF n = 0 THEN 0 ELSE PointCount(ivs, n - 1) + Len(ivs[n].points)

\* The point counts summed over the entries of a trace list.
RECURSIVE CountedPoints(_)
CountedPoints(ts) ==
    IF ts = <<>> THEN 0
    ELSE PointCount(trace_objs[Head(ts)].intervals, Len(trace_objs[Head(ts)].intervals))
         + CountedPoints(Tail(ts))

\* C1: from a new project, after any sequence of add_trace and remove_trace
\* calls, total_intervals is the sum of len(trace.intervals) over
\* project.traces and total_points the sum of their point counts; and a
\* remove_trace whose id no listed trace has returns false and leaves the
\* trace list and both counters as they were.
C1_CountersFollowTraces ==
    /\ total_intervals = CountedIntervals(traces)
    /\ total_points = CountedPoints(traces)
    /\ (/\ last.op = "remove_trace"
        /\ \A k \in 1..Len(last.traces_before) :
               trace_objs[last.traces_before[k]].id # last.trace_id)
       => /\ last.ret = FALSE
          /\ traces = last.traces_before
          /\ total_intervals = last.total_intervals_before
          /\ total_points = last.total_points_before

\* A remove_trace with an unknown id has just returned false on a project
\* that lists two traces with points.
C1_Witness ==
    /\ last.op = "remove_trace"
    /\ last.trace_id = UnknownId
    /\ last.ret = FALSE
    /\ Len(traces) = 2
    /\ total_intervals >= 2
    /\ total_points >= 4

\* C6: split_interval(trace, id, k) succeeds exactly when the id is in the
\* trace and 1 <= k < N - 1 for the N points of that interval; on success the
\* two new intervals hold points[0..k] (k + 1 points) and points[k..N-1]
\* (N - k points) and carry the original's kind, colour, order and both
\* offsets, the original is gone from the trace, both new ones are at its
\* end, and every other interval is where it was; on failure the result is
\* (None, None) and the list is unchanged.
C6_SplitInterval ==
    last.op = "split_interval" =>
        LET before == last.before
            after == trace_objs[last.trace].intervals
            present == \E j \in 1..Len(before) : before[j].id = last.id
            pos == CHOOSE j \in 1..Len(before) : before[j].id = last.id
            orig == before[pos]
            N == Len(orig.points)
            succeeded == last.ret # <<NoObject, NoObject>>
            a == after[Len(after) - 1]
            b == after[Len(after)]
        IN /\ succeeded <=> (present /\ 1 <= last.k /\ last.k < N - 1)
           /\ succeeded =>
                  /\ Len(after) = Len(before) + 1
                  /\ last.ret = <<a.obj, b.obj>>
                  /\ Len(a.points) = last.k + 1
                  /\ Len(b.points) = N - last.k
                  /\ \A j \in 1..(last.k + 1) : a.points[j] = orig.points[j]
                  /\ \A j \in 1..(N - last.k) : b.points[j] = orig.points[last.k + j]
                  /\ \A x \in {a, b} :
                         /\ x.type = orig.type
                         /\ x.color = orig.color
                         /\ x.polynomial_order = orig.polynomial_order
                         /\ x.time_correction = orig.time_correction
                         /\ x.amplitude_correction = orig.amplitude_correction
                  /\ \A j \in 1..Len(after) : after[j].obj # orig.obj /\ after[j].id # orig.id
                  /\ a.obj # b.obj /\ a.id # b.id
                  /\ \A j \in 1..Len(before) : before[j].id # a.id /\ before[j].id # b.id
                  /\ \A j \in 1..(pos - 1) : after[j] = before[j]
                  /\ \A j \in (pos + 1)..Len(before) : after[j - 1] = before[j]
           /\ ~succeeded => after = before

\* The middle one of three intervals, one of four points, has been split at
\* its third point.
C6_Witness ==
    /\ last.op = "split_interval"
    /\ last.ret # <<NoObject, NoObject>>
    /\ Len(last.before) = 3
    /\ last.before[2].id = last.id
    /\ Len(last.before[2].points) = 4
    /\ last.k = 2

\* How often the point p occurs in the point list pts.
Occurrences(pts, p) == Cardinality({j \in 1..Len(pts) : pts[j] = p})

\* The sum of f[j] over the j in S.
RECURSIVE SumOver(_, _)
SumOver(f, S) ==
    IF S = {} THEN 0
    ELSE f[CHOOSE j \in S : TRUE] + SumOver(f, S \ {CHOOSE j \in S : TRUE})

\* C7: merge_intervals(trace, ids) with at least two of the trace's intervals
\* matching: the trace afterwards holds the non-matched intervals in their
\* previous relative order followed by exactly one new interval, whose
\* points are the points of the matched intervals, none lost and none
\* doubled, ascending by x_px, and whose kind, colour and order are those of
\* the first matched interval; with fewer than two matching the result is
\* None and the list is unchanged.
C7_MergeIntervals ==
    last.op = "merge_intervals" =>
        LET before == last.before
            after == trace_objs[last.trace].intervals
            matched == {j \in 1..Len(before) : before[j].id \in last.ids}
            kept == (1..Len(before)) \ matched
            \* the position in before of the n-th kept interval
            nth_kept(n) == CHOOSE j \in kept : Cardinality({q \in kept : q < j}) = n - 1
            first == CHOOSE j \in matched : \A q \in matched : j <= q
            m == after[Len(after)]
            all_points == UNION {{before[j].points[q] : q \in 1..Len(before[j].points)} :
                                     j \in matched}
        IN IF Cardinality(matched) >= 2
           THEN /\ Len(after) = Cardinality(kept) + 1
                /\ \A n \in 1..Cardinality(kept) : after[n] = before[nth_kept(n)]
                /\ last.ret = m.obj
                /\ \A j \in 1..Len(before) : before[j].obj # m.obj /\ before[j].id # m.id
                /\ Len(m.points) = SumOver([j \in matched |-> Len(before[j].points)], matched)
                /\ \A q \in 1..Len(m.points) : m.points[q] \in all_points
                /\ \A p \in all_points :
                       Occurrences(m.points, p) =
                           SumOver([j \in matched |-> Occurrences(before[j].points, p)], matched)
                /\ \A q \in 1..(Len(m.points) - 1) : m.points[q].x_px <= m.points[q + 1].x_px
                /\ m.type = before[first].type
                /\ m.color = before[first].color
                /\ m.polynomial_order = before[first].polynomial_order
           ELSE /\ last.ret = NoObject
                /\ after = before

\* The first and the last of three intervals have been merged: the first is
\* a waveform whose points are not in x order, the last is of another kind,
\* and the one between them stays.
C7_Witness ==
    /\ last.op = "merge_intervals"
    /\ last.ret # NoObject
    /\ Len(last.before) = 3
    /\ last.before[1].id \in last.ids
    /\ last.before[2].id \notin last.ids
    /\ last.before[3].id \in last.ids
    /\ last.before[1].type = "waveform"
    /\ last.before[3].type = "noise"
    /\ Len(trace_objs[last.trace].intervals) = 2

(***************************************************************************)
(* Properties of the project under Spec.                                   *)
(***************************************************************************)
\* In how many places the interval object o is held: once for every entry of
\* a trace object's list that refers to it, once for every loose entry.
Holders(o) ==
    Cardinality({<<h, k>> \in TraceHandles \X (1..MaxLen + 1) :
                    k <= Len(trace_objs[h].intervals) /\ trace_objs[h].intervals[k].obj = o})
    + Cardinality({k \in 1..Len(loose_intervals) : loose_intervals[k].obj = o})

\* C2: in every state reached by finish-interval, add_interval_to_trace,
\* merge_intervals, split_interval and the deletions of the panel and the
\* dialog, each interval is held by exactly one owner: one trace's list or
\* the loose list, never both and never two traces.
C2_OneOwner ==
    \A iv \in ExistingIntervals : Holders(iv.obj) = 1

\* C3: in every state reached by add_trace, remove_trace,
\* add_interval_to_trace, merge_intervals and split_interval the trace ids
\* are unique across project.traces, the interval ids are unique within each
\* trace and the interval ids are unique among the loose intervals.
C3_UniqueIds ==
    /\ \A j, k \in 1..Len(traces) :
           j # k => trace_objs[traces[j]].id # trace_objs[traces[k]].id
    /\ \A h \in TraceHandles : \A j, k \in 1..Len(trace_objs[h].intervals) :
           j # k => trace_objs[h].intervals[j].id # trace_objs[h].intervals[k].id
    /\ \A j, k \in 1..Len(loose_intervals) :
           j # k => loose_intervals[j].id # loose_intervals[k].id

(***************************************************************************)
(* SpecData: get_digitized_data on projects that satisfy the invariants:   *)
(* every interval has one owner, and the ids are unique within each trace  *)
(* and among the loose intervals, while two owners may use the same id.    *)
(***************************************************************************)
\* The intervals each owner can hold: objects 1 and 2 for the first trace,
\* 3 and 4 for the second, 5 and 6 loose.  Id 1 is used by all three owners;
\* the intervals of ids 2 and 3 cannot be digitized (one point; two points
\* over the same x).
FirstTraceIntervals ==
    { DigitizationInterval(1, 1, "waveform",
          <<DigitizationPoint(2, 1), DigitizationPoint(0, 0), DigitizationPoint(1, 1)>>,
          "#FF0000", 3, 0, 0),
      DigitizationInterval(2, 2, "time_marker", <<DigitizationPoint(1, 1)>>, "#0000FF", 3, 0, 0) }

SecondTraceIntervals ==
    { DigitizationInterval(3, 1, "noise", <<DigitizationPoint(1, 0), DigitizationPoint(3, 2)>>,
          "#00FF00", 2, 1, 2),
      DigitizationInterval(4, 3, "waveform", <<DigitizationPoint(1, 0), DigitizationPoint(1, 2)>>,
          "#FF0000", 3, 0, 0) }

LooseDataIntervals ==
    { DigitizationInterval(5, 1, "waveform", <<DigitizationPoint(0, 2), DigitizationPoint(4, 0)>>,
          "#FF0000", 3, 2, 0),
      DigitizationInterval(6, 4, "noise", <<DigitizationPoint(0, 0), DigitizationPoint(2, 1)>>,
          "#00FF00", 3, 0, 1) }

\* The lists without repetition over a set of intervals.
ListsOver(S) ==
    {<<>>} \cup {<<a>> : a \in S} \cup {ab \in S \X S : ab[1] # ab[2]}

InitData ==
    /\ \E l1 \in ListsOver(FirstTraceIntervals), l2 \in ListsOver(SecondTraceIntervals) :
           trace_objs = <<SeismicTrace(1, "Trace 1", <<0, 0, 4, 4>>, l1),
                          SeismicTrace(2, "Trace 2", <<0, 4, 4, 8>>, l2)>>
    /\ traces = <<1, 2>>
    /\ loose_intervals \in ListsOver(LooseDataIntervals)
    /\ total_intervals = Len(trace_objs[1].intervals) + Len(trace_objs[2].intervals)
    /\ total_points = SumPoints(trace_objs[1].intervals) + SumPoints(trace_objs[2].intervals)
    /\ next_obj = 6
    /\ OutsideInit
    /\ last = [op |-> "init"]

NextData ==
    \E i \in ExistingIntervalIds \cup {UnknownId} : \E tid \in ListedTraceIds \cup {NoTrace} :
        /\ get_digitized_data(i, tid)
        /\ last' = [op |-> "get_digitized_data", interval_id |-> i, trace_id |-> tid,
                    ret |-> digitized_data(i, tid)]

SpecData == InitData /\ [][NextData]_vars

\* The series computed from the points pts under the project's window and rate.
SeriesOf(pts) ==
    regular_digitization(pts, settings.time_start, settings.time_end,
                         settings.export_sampling_rate)

\* C8: get_digitized_data(I.id, T.id), for a trace T that owns an interval I
\* of at least 2 points, returns the series digitized from I's own points
\* shifted by I's offsets, unless the transform fails on them; and it
\* returns (None, None) only when T owns no interval with that id or the
\* transform fails.
C8_ResolvedWithinTrace ==
    (last.op = "get_digitized_data" /\ last.trace_id # NoTrace) =>
        LET T == trace_objs[find_trace_by_id(last.trace_id)]
            owned == {k \in 1..Len(T.intervals) : T.intervals[k].id = last.interval_id}
        IN /\ \A k \in owned :
                  (Len(T.intervals[k].points) >= 2 /\ SeriesOf(T.intervals[k].points).ok) =>
                      /\ last.ret.ok
                      /\ last.ret.series = SeriesOf(T.intervals[k].points)
                      /\ last.ret.time_shift = T.intervals[k].time_correction
                      /\ last.ret.amplitude_shift = T.intervals[k].amplitude_correction
           /\ ~last.ret.ok =>
                  \/ owned = {}
                  \/ \E k \in owned : ~SeriesOf(T.intervals[k].points).ok

(***************************************************************************)
(* SpecFile: a project with traces and loose intervals whose settings the   *)
(* Raster Settings dialog changes, saved to one file and loaded from it.    *)
(***************************************************************************)
\* Values of the dialog's time spin boxes and of the constructor's arguments.
TimeInputs == {0, 10, 50}

\* The dialog's get_settings(): the two spin boxes are independent.
DialogInputs ==
    { [orientation |-> o, time_start |-> ts, time_end |-> te, sampling_rate |-> 100,
       poly_order |-> 3, auto_interpolate |-> FALSE, show_grid |-> TRUE] :
      o \in {0, 1}, ts \in TimeInputs, te \in TimeInputs }

\* interpolated_points once the interval has been interpolated.
CachedSamples == [kind |-> "ndarray", rows |-> <<<<0, 0>>, <<1, 1>>, <<2, 1>>>>]

\* The interval object o with id i of a saved project; cached says whether it
\* carries interpolated samples.
FileInterval(o, i, cached) ==
    [DigitizationInterval(o, i, "waveform",
         <<DigitizationPoint(2, 1), DigitizationPoint(0, 0), DigitizationPoint(1, 1)>>,
         "#FF0000", 3, 1, 2)
     EXCEPT !.interpolated_points = IF cached THEN CachedSamples ELSE NoArray]

\* Counters a project can carry: they follow neither list once intervals are
\* added through the trace manager.
CounterInputs == { <<0, 0>>, <<2, 5>> }

InitFile ==
    /\ \E n \in 1..2, cached \in BOOLEAN :
           /\ trace_objs = [k \in 1..n |->
                               SeismicTrace(k, IF k = 1 THEN "Trace 1" ELSE "Trace 2",
                                            <<0, 0, 4, 4>>, <<FileInterval(k, 1, cached)>>)]
           /\ traces = [k \in 1..n |-> k]
           /\ loose_intervals = <<FileInterval(n + 1, 1, ~cached),
                                  DigitizationInterval(n + 2, 2, "noise",
                                      <<DigitizationPoint(1, 0), DigitizationPoint(3, 2)>>,
                                      "#00FF00", 2, 0, 0)>>
           /\ next_obj = n + 2
    /\ \E c \in CounterInputs : total_intervals = c[1] /\ total_points = c[2]
    /\ \E ts \in TimeInputs, te \in TimeInputs :
           settings = WorkspaceSettings("horizontal", ts, te, 100, 3, FALSE, TRUE)
    /\ file = NoFile
    /\ gl = GLWidget(RasterSize)
    /\ GuiInit
    /\ last = [op |-> "init", ret |-> FALSE]

NextFile ==
    \/ \E d \in DialogInputs :
           /\ apply_raster_settings(d)
           /\ last' = [op |-> "apply_raster_settings", ret |-> FALSE]
    \/ \E writable \in BOOLEAN :
           /\ save(writable)
           /\ last' = [op |-> "save", ret |-> save_result(writable)]
    \/ /\ load
       /\ last' = [op |-> "load", ret |-> file.saved]

SpecFile == InitFile /\ [][NextFile]_vars

\* C4: in every state of the project's settings time_end > time_start.
C4_TimeWindow == settings.time_end > settings.time_start

\* What save and load are to reproduce of an interval: every field but the
\* identity of the object.
Content(iv) == [f \in (DOMAIN iv) \ {"obj"} |-> iv[f]]

ContentsOf(ivs) == [k \in 1..Len(ivs) |-> Content(ivs[k])]

\* C5: a successful save followed by load yields the same trace ids and
\* names in the same order, the same intervals per trace and among the loose
\* intervals (ids, points, offsets, colour, order, cached samples), the same
\* counters and the same settings values.
C5_SaveLoadRoundTrip ==
    [][ (/\ last.op = "save" /\ last.ret
         /\ last'.op = "load"
         /\ Len(traces) >= 1 /\ Len(loose_intervals) >= 1) =>
            /\ Len(traces') = Len(traces)
            /\ \A k \in 1..Len(traces) :
                   /\ trace_objs'[traces'[k]].id = trace_objs[traces[k]].id
                   /\ trace_objs'[traces'[k]].name = trace_objs[traces[k]].name
                   /\ ContentsOf(trace_objs'[traces'[k]].intervals) =
                          ContentsOf(trace_objs[traces[k]].intervals)
            /\ ContentsOf(loose_intervals') = ContentsOf(loose_intervals)
            /\ total_intervals' = total_intervals
            /\ total_points' = total_points
            /\ settings' = settings ]_vars

\* The part of the round trip that does not involve the time window.
RoundTripButTimeEnd ==
    [][ (last.op = "save" /\ last.ret /\ last'.op = "load") =>
            /\ [k \in 1..Len(traces') |-> trace_objs'[traces'[k]]] =
                   [k \in 1..Len(traces) |-> trace_objs[traces[k]]]
            /\ loose_intervals' = loose_intervals
            /\ total_intervals' = total_intervals
            /\ total_points' = total_points
            /\ [settings' EXCEPT !.time_end = 0] = [settings EXCEPT !.time_end = 0]
            /\ (settings.time_end > settings.time_start => settings' = settings) ]_vars

(***************************************************************************)
(* SpecCanvas: the GLWidget with one loaded image under the mode buttons    *)
(* and the mouse.                                                           *)
(***************************************************************************)
MaxCuts == 1            \* cuts finalized
MaxCurvePoints == 4     \* points of the curve in progress
MaxCurves == 1          \* finished curves

Buttons == {"Left", "Right"}

\* Double-click positions: near three corners and the top edge (on the
\* border), the middle of the image (off the border) and off the image.
DoubleClickPositions == { <<1, 2>>, <<20, 1>>, <<39, 38>>, <<2, 39>>, <<20, 20>>, <<60, 60>> }

\* Press positions: on the image and off it.
PressPositions == { <<10, 10>>, <<60, 60>> }

InitCanvas ==
    /\ trace_objs = <<>>
    /\ traces = <<>>
    /\ loose_intervals = <<>>
    /\ total_intervals = 0
    /\ total_points = 0
    /\ next_obj = 0
    /\ OutsideInit
    /\ last = [op |-> "init"]

NextCanvas ==
    \/ \E enabled \in BOOLEAN : set_mode_move(enabled) /\ UNCHANGED last
    \/ \E enabled \in BOOLEAN : set_cut_mode(enabled) /\ UNCHANGED last
    \/ start_vectorization /\ UNCHANGED last
    \/ finish_vectorization /\ Len(gl.curves) < MaxCurves /\ UNCHANGED last
    \/ \E button \in Buttons, p \in DoubleClickPositions, sz \in CutSizes :
           /\ gl.cuts < MaxCuts
           /\ Len(gl.curves) < MaxCurves
           /\ mouseDoubleClickEvent(button, p, sz)
           /\ UNCHANGED last
    \/ \E button \in Buttons, p \in PressPositions :
           /\ Len(gl.current_curve.points) < MaxCurvePoints
           /\ mousePressEvent(button, p)
           /\ UNCHANGED last

SpecCanvas == InitCanvas /\ [][NextCanvas]_vars

\* The click is a left double-click in cut mode on the border of the active
\* raster, its snapped position within the closure distance of the first
\* vertex of the polygon in progress.
ClosingDoubleClick(p) ==
    /\ gl.cut_mode
    /\ gl.active_object # NoRaster
    /\ gl.cutting_polygon.active
    /\ ~gl.cutting_polygon.closed
    /\ Len(gl.cutting_polygon.points) >= 1
    /\ is_on_border(gl.size, p, BorderThreshold)
    /\ manhattanLength(snap_to_border(gl.size, p), gl.cutting_polygon.points[1]) < ClosureDistance
    /\ \E sz \in CutSizes : mouseDoubleClickEvent("Left", p, sz)

\* C9: a closing double-click on a polygon of 3 or 4 vertices finalizes the
\* cut in the same step (the raster is replaced by the cut result and the
\* polygon is reset to empty, inactive, not closed); on a polygon of fewer
\* than 3 vertices it leaves the polygon as it is.
C9_ClosureFinalizes ==
    [][ \A p \in DoubleClickPositions :
            ClosingDoubleClick(p) =>
                IF Len(gl.cutting_polygon.points) >= MinClosablePoints
                THEN /\ gl'.cuts = gl.cuts + 1
                     /\ gl'.cutting_polygon = EmptyPolygon
                ELSE gl'.cutting_polygon = gl.cutting_polygon ]_vars

\* C10: in vectorization mode with an active raster, a left press on that
\* raster makes the curve in progress one point longer, and a press with
\* another button leaves it as it is.
C10_OnePointPerPress ==
    [][ \A p \in PressPositions :
            (gl.vectorization_mode /\ gl.active_object # NoRaster /\ contains_point(gl.size, p)) =>
                /\ mousePressEvent("Left", p) =>
                       Len(gl'.current_curve.points) = Len(gl.current_curve.points) + 1
                /\ mousePressEvent("Right", p) =>
                       gl'.current_curve = gl.current_curve ]_vars

\* What the code does on these two events.
ClosureOfThreeKeepsPolygon ==
    [][ \A p \in DoubleClickPositions :
            (ClosingDoubleClick(p) /\ Len(gl.cutting_polygon.points) = MinClosablePoints) =>
                /\ gl'.cuts = gl.cuts
                /\ gl'.cutting_polygon =
                       [points |-> Append(gl.cutting_polygon.points, gl.cutting_polygon.points[1]),
                        active |-> TRUE, closed |-> TRUE] ]_vars

ClosureOfFourFinalizes ==
    [][ \A p \in DoubleClickPositions :
            (ClosingDoubleClick(p) /\ Len(gl.cutting_polygon.points) = MaxPolygonPoints) =>
                /\ gl'.cuts = gl.cuts + 1
                /\ gl'.cutting_polygon = EmptyPolygon ]_vars

LeftPressAppendsTwice ==
    [][ \A p \in PressPositions :
            (/\ gl.vectorization_mode /\ gl.active_object # NoRaster
             /\ contains_point(gl.size, p) /\ mousePressEvent("Left", p)) =>
                gl'.current_curve.points = gl.current_curve.points \o <<p, p>> ]_vars

(***************************************************************************)
(* SpecCurves: the GLWidget's curves under vectorization, the clear         *)
(* operations and the curve file, with one or two images in the scene.      *)
(***************************************************************************)
\* The paths of the images add_image is given: another name, and the same
\* base name in another directory.
AddedPaths == { [dir |-> "scans", base |-> "b.png"], [dir |-> "copies", base |-> "a.png"] }

\* Click positions: on the first image only, on the second image only (should
\* there be one), off both.
CurvePositions == { <<10, 10>>, <<50, 50>>, <<90, 90>> }

\* Curve files on disk: none, one that save_curves_to_file wrote for a.png
\* with a curve of two points, and one with a curve whose points collapsed
\* to one and a curve of three points.
CurveFileInputs ==
    { NoCurvesFile,
      [written |-> TRUE, raster |-> [present |-> TRUE, file_path |-> "a.png"],
       curves |-> << [index |-> 0, color |-> CurrentColor, width |-> DefaultLineWidth,
                      points |-> <<<<1000, 1000>>, <<3000, 3000>>>>] >>],
      [written |-> TRUE, raster |-> [present |-> TRUE, file_path |-> "a.png"],
       curves |-> << [index |-> 0, color |-> CurrentColor, width |-> DefaultLineWidth,
                      points |-> <<<<1000, 1000>>>>],
                     [index |-> 1, color |-> CurrentColor, width |-> DefaultLineWidth,
                      points |-> <<<<1000, 1000>>, <<3000, 3000>>, <<1000, 1000>>>>] >>] }

\* The explicit "finish" call.
finish_current_curve_call ==
    /\ gl' = finish_current_curve(gl)
    /\ UNCHANGED <<project_vars, settings, file, gui_vars>>

InitCurves ==
    /\ trace_objs = <<>>
    /\ traces = <<>>
    /\ loose_intervals = <<>>
    /\ total_intervals = 0
    /\ total_points = 0
    /\ next_obj = 0
    /\ settings = DefaultSettings
    /\ file = NoFile
    /\ gl = GLWidget(RasterSize)
    /\ curves_file \in CurveFileInputs
    /\ tile_manager = TileManager(DefaultTileSize)
    /\ canvas = OpenGLRasterWidget(WidgetSize)
    /\ raster = NoRasterData
    /\ window = MainWindow
    /\ engine = DigitizerEngine
    /\ loader = ImageLoader
    /\ last = [op |-> "init"]

Called(op) == last' = [op |-> op]

NextCurves ==
    \/ \E path \in AddedPaths :
           /\ gl.raster_objects = <<ImagePath>>
           /\ add_image(path) /\ Called("add_image")
    \/ \E enabled \in BOOLEAN :
           set_mode_move(enabled) /\ Called("set_mode_move")
    \/ start_vectorization
           /\ Called("start_vectorization")
    \/ /\ Len(gl.curves) < MaxCurves
       /\ finish_current_curve_call
       /\ Called("finish_current_curve")
    \/ /\ Len(gl.curves) < MaxCurves
       /\ finish_vectorization /\ Called("finish_vectorization")
    \/ clear_last_curve /\ Called("clear_last_curve")
    \/ clear_all_curves /\ Called("clear_all_curves")
    \/ /\ load_curves_from_file
       /\ Called("load_curves_from_file")
    \/ \E button \in Buttons, p \in CurvePositions :
           /\ Len(gl.curves) < MaxCurves
           /\ mouseDoubleClickEvent(button, p, RasterSize)
           /\ Called("mouseDoubleClickEvent")
    \/ \E button \in Buttons, p \in CurvePositions :
           /\ mousePressEvent(button, p)
           /\ Len(gl'.current_curve.points) <= MaxCurvePoints
           /\ Called("mousePressEvent")

SpecCurves == InitCurves /\ [][NextCurves]_vars

\* The step finishes the curve in progress: the explicit call, the end of
\* vectorization, or a left double-click in vectorization mode.
FinishingStep ==
    /\ gl.current_curve.present
    /\ \/ last'.op \in {"finish_current_curve", "finish_vectorization"}
       \/ /\ gl.vectorization_mode
          /\ \E p \in CurvePositions : mouseDoubleClickEvent("Left", p, RasterSize)

MaxImageSide == 4       \* width and height of the images
MaxTileSize == 3        \* tile_size

\* Pixel values: every pixel its own non-zero value, or all pixels 7.
ImagesOf(w, h) ==
    { [r \in 1..h |-> [c \in 1..w |-> (r - 1) * w + c]],
      [r \in 1..h |-> [c \in 1..w |-> 7]] }

InitTiles ==
    /\ trace_objs = <<>>
    /\ traces = <<>>
    /\ loose_intervals = <<>>
    /\ total_intervals = 0
    /\ total_points = 0
    /\ next_obj = 0
    /\ settings = DefaultSettings
    /\ file = NoFile
    /\ gl = GLWidget(RasterSize)
    /\ curves_file = NoCurvesFile
    /\ \E size \in 1..MaxTileSize : tile_manager = TileManager(size)
    /\ canvas = OpenGLRasterWidget(WidgetSize)
    /\ raster = NoRasterData
    /\ window = MainWindow
    /\ engine = DigitizerEngine
    /\ loader = ImageLoader
    /\ last = [op |-> "init", image |-> <<>>, ret |-> NoImage]

NextTiles ==
    \/ \E w \in 1..MaxImageSide, h \in 1..MaxImageSide : \E image \in ImagesOf(w, h) :
           /\ split_into_tiles(image, w, h)
           /\ last' = [op |-> "split_into_tiles", image |-> image, ret |-> NoImage]
    \/ /\ get_combined_image
       /\ last' = [op |-> "get_combined_image", image |-> last.image,
                   ret |-> combined_image(tile_manager)]

SpecTiles == InitTiles /\ [][NextTiles]_vars

\* ceil(a / b)
Ceil(a, b) == IF a % b = 0 THEN a \div b ELSE (a \div b) + 1

\* The pixels (row, column, counted from 0) of the rectangle of the tile t.
PixelsOf(t) == (t.y..(t.y + t.height - 1)) \X (t.x..(t.x + t.width - 1))

\* C12: after split_into_tiles on a W x H image with tile size T the list
\* has ceil(W/T) * ceil(H/T) tiles, their rectangles are pairwise disjoint,
\* lie inside the image and cover every pixel; and get_combined_image on
\* those tiles returns the original buffer.
C12_TilesCoverImage ==
    LET tiles == tile_manager.tiles
        W == tile_manager.image_width
        H == tile_manager.image_height
        T == tile_manager.tile_size
    IN /\ last.op = "split_into_tiles" =>
              /\ W = Len(last.image[1]) /\ H = Len(last.image)
              /\ Len(tiles) = Ceil(W, T) * Ceil(H, T)
              /\ \A j, k \in 1..Len(tiles) :
                     j # k => PixelsOf(tiles[j]) \cap PixelsOf(tiles[k]) = {}
              /\ \A k \in 1..Len(tiles) :
                     PixelsOf(tiles[k]) \subseteq (0..(H - 1)) \X (0..(W - 1))
              /\ UNION {PixelsOf(tiles[k]) : k \in 1..Len(tiles)} = (0..(H - 1)) \X (0..(W - 1))
       /\ (last.op = "get_combined_image" /\ last.image # <<>>) =>
              /\ last.ret.present
              /\ last.ret.data = last.image

\* A 4 x 4 image split with tile size 3 (four tiles, the last ones clipped)
\* has been put together again.
C12_Witness ==
    /\ last.op = "get_combined_image"
    /\ tile_manager.tile_size = 3
    /\ tile_manager.image_width = 4 /\ tile_manager.image_height = 4
    /\ Len(tile_manager.tiles) = 4
    /\ last.ret.data[4][4] = 16

(***************************************************************************)
(* SpecTiledCanvas: the view of the tiled raster canvas under resize,      *)
(* wheel, drag and the zoom commands.                                       *)
(***************************************************************************)
MaxPan == 800            \* |translate_x|, |translate_y| the model follows
MaxDenominator == 20     \* numerators and denominators of scale the model follows
MaxPanDenominator == 2   \* denominators of translate_x, translate_y the model follows

CanvasRasters == { SeismogramRaster("scan.png") }

ResizeInputs == { <<600, 400>>, <<1200, 800>> }

DragInputs == { <<700, 0>>, <<-700, 0>> }

WheelPositions == { <<300, 200>> }

\* The view is one the model follows.
InView(c) ==
    /\ c.scale[2] <= MaxDenominator /\ c.scale[1] <= MaxDenominator
    /\ c.translate_x[2] <= MaxPanDenominator /\ c.translate_y[2] <= MaxPanDenominator
    /\ FLessEq(Whole(0 - MaxPan), c.translate_x) /\ FLessEq(c.translate_x, Whole(MaxPan))
    /\ FLessEq(Whole(0 - MaxPan), c.translate_y) /\ FLessEq(c.translate_y, Whole(MaxPan))

InitTiledCanvas ==
    /\ trace_objs = <<>>
    /\ traces = <<>>
    /\ loose_intervals = <<>>
    /\ total_intervals = 0
    /\ total_points = 0
    /\ next_obj = 0
    /\ OutsideInit
    /\ last = [reads |-> TRUE]

\* A raster is readable or not from the moment it is set: reads is drawn
\* by set_raster and kept for the view changes that follow.
NextTiledCanvas ==
    /\ \/ \E r \in CanvasRasters, reads \in BOOLEAN :
              set_raster(r, reads) /\ last' = [reads |-> reads]
       \/ \E wh \in ResizeInputs : resizeGL(wh, last.reads) /\ UNCHANGED last
       \/ paintGL(last.reads) /\ UNCHANGED last
       \/ \E up \in BOOLEAN, mouse \in WheelPositions :
              wheelEvent(up, mouse, last.reads) /\ UNCHANGED last
       \/ \E d \in DragInputs : mouseMoveEvent(d, last.reads) /\ UNCHANGED last
       \/ zoom_in(last.reads) /\ UNCHANGED last
       \/ zoom_out(last.reads) /\ UNCHANGED last
       \/ zoom_original(last.reads) /\ UNCHANGED last
    /\ InView(canvas')

SpecTiledCanvas == InitTiledCanvas /\ [][NextTiledCanvas]_vars

\* The needed set of the current view.
NeededTiles == calculate_needed_tiles(canvas, get_visible_viewport(canvas))

\* C13: with a raster set, after every handler that ends in
\* load_visible_tiles no tile outside the needed set of the view is
\* resident, and when the reads and uploads succeed every tile of the needed
\* set that lies in the image is resident.
C13_ResidentIsNeeded ==
    canvas.raster.present =>
        /\ canvas.textures \subseteq NeededTiles
        /\ last.reads =>
               \A t \in NeededTiles :
                   (t[1] * TileSide < canvas.image_width /\ t[2] * TileSide < canvas.image_height)
                       => t \in canvas.textures

\* Needed tiles are resident whenever some part of the image is in the
\* widget and the reads succeed.
NeededIsResident ==
    (canvas.raster.present /\ last.reads /\ NeededTiles # {}) =>
        \A t \in NeededTiles :
            (t[1] * TileSide < canvas.image_width /\ t[2] * TileSide < canvas.image_height)
                => t \in canvas.textures

(***************************************************************************)
(* SpecWindow: the MainWindow's File menu on a project without traces.     *)
(***************************************************************************)
ImportPaths == {"", "scan.png", "small.png", "notes.txt", "gone.png"}

InitWindow ==
    /\ trace_objs = <<>>
    /\ traces = <<>>
    /\ loose_intervals = <<>>
    /\ total_intervals = 0
    /\ total_points = 0
    /\ next_obj = 0
    /\ OutsideInit
    /\ last = [op |-> "init"]

NextWindow ==
    \/ new_project /\ Called("new_project")
    \/ \E chosen \in BOOLEAN, reads \in BOOLEAN :
           open_project(chosen, reads) /\ Called("open_project")
    \/ \E accepted \in BOOLEAN, filepath \in ImportPaths, reads \in BOOLEAN :
           import_raster(accepted, filepath, reads) /\ Called("import_raster")
    \/ \E chosen \in BOOLEAN, writable \in BOOLEAN :
           save_project(chosen, writable) /\ Called("save_project")
    \/ paintGL(TRUE) /\ Called("paintGL")

SpecWindow == InitWindow /\ [][NextWindow]_vars

\* The current project has a raster that was handed to the canvas.
RasterOnCanvas == raster.present /\ canvas.raster = raster /\ get_image_info(raster).ok

\* C14: the Raster and Traces menus are enabled only while the current
\* project has a raster that was successfully handed to the canvas; they are
\* disabled at start-up and whenever the current project has no raster.
C14_MenusFollowRaster ==
    /\ (window.raster_menu \/ window.traces_menu) => RasterOnCanvas
    /\ last.op = "init" => ~window.raster_menu /\ ~window.traces_menu

\* The menus are enabled together, and once enabled they stay enabled.
MenusNeverDisabled ==
    /\ [](window.raster_menu = window.traces_menu)
    /\ [][window.raster_menu => window'.raster_menu]_vars

\* The menus are disabled until an import hands a raster to the canvas.
DisabledUntilImport ==
    [][(~window.raster_menu /\ window'.raster_menu) =>
           (last'.op = "import_raster" /\ raster'.present /\ canvas'.raster = raster')]_vars

(***************************************************************************)
(* SpecEngine: batch_digitize on lists of intervals, some of which cannot  *)
(* be digitized and some of which share an id.                              *)
(***************************************************************************)
MaxBatch == 3     \* intervals in one batch

SampleCounts == {5, 12}

\* Two points, digitizable; one point, not digitizable.
TwoPoints == <<DigitizationPoint(0, 0), DigitizationPoint(2, 1)>>

OnePoint == <<DigitizationPoint(1, 1)>>

BatchIntervals ==
    { DigitizationInterval(1, 1, "waveform", TwoPoints, "#FF0000", 3, 0, 0),
      DigitizationInterval(2, 2, "waveform", OnePoint, "#FF0000", 3, 0, 0),
      DigitizationInterval(3, 1, "noise", OnePoint, "#00FF00", 3, 1, 2) }

BatchInputs == UNION { [1..n -> BatchIntervals] : n \in 0..MaxBatch }

InitEngine ==
    /\ trace_objs = <<>>
    /\ traces = <<>>
    /\ loose_intervals = <<>>
    /\ total_intervals = 0
    /\ total_points = 0
    /\ next_obj = 0
    /\ OutsideInit
    /\ last = [op |-> "init"]

NextEngine ==
    \/ \E intervals \in BatchInputs, has_callback \in BOOLEAN :
           batch_digitize(intervals, has_callback) /\ Called("batch_digitize")
    \/ \E n \in SampleCounts, detrend_raises \in BOOLEAN, fix_raises \in BOOLEAN :
           batch_record(n, detrend_raises, fix_raises) /\ Called("batch_record")
    \/ batch_callback /\ Called("batch_callback")
    \/ batch_return /\ Called("batch_return")
    \/ \E iv \in BatchIntervals, apply_corrections \in BOOLEAN, n \in SampleCounts,
          detrend_raises \in BOOLEAN, fix_raises \in BOOLEAN :
           /\ engine.batch.pc = "idle"
           /\ UNCHANGED <<project_vars, outside_project>>
           /\ last' = [op |-> "digitize_interval", interval |-> iv,
                        apply_corrections |-> apply_corrections, samples |-> n,
                        detrend_raises |-> detrend_raises, fix_raises |-> fix_raises,
                        ret |-> digitize_interval(engine, iv, apply_corrections, n,
                                                  detrend_raises, fix_raises)]

SpecEngine == InitEngine /\ [][NextEngine]_vars

\* The entry of results for the id i, or [found |-> FALSE].
Entry(results, i) ==
    IF \E k \in 1..Len(results) : results[k].id = i
    THEN [found |-> TRUE,
          value |-> results[CHOOSE k \in 1..Len(results) : results[k].id = i].value]
    ELSE [found |-> FALSE, value |-> [ok |-> FALSE]]

\* The number of intervals whose result has been recorded.
Recorded(b) == IF b.pc = "callback" THEN b.pos + 1 ELSE b.pos

C18_FailedCorrectionKeepsAmplitude ==
    (/\ last.op = "digitize_interval"
     /\ last.apply_corrections /\ engine.auto_corrections_enabled
     /\ last.samples >= MinCorrectionSamples
     /\ digitized(last.interval).ok
     /\ (last.detrend_raises \/ last.fix_raises))
        => /\ last.ret.ok
           /\ last.ret.amplitude = Amplitude(digitized(last.interval))

\* A failure of either correction step never makes digitize_interval raise,
\* and a failed detrend leaves the amplitude as it was.
FailedDetrendKeepsAmplitude ==
    (/\ last.op = "digitize_interval"
     /\ digitized(last.interval).ok)
        => /\ last.ret.ok
           /\ (last.detrend_raises \/ ~last.apply_corrections
                    \/ last.samples < MinCorrectionSamples)
                  => last.ret.amplitude = Amplitude(digitized(last.interval))

(***************************************************************************)
(* SpecLoader: ImageLoader.load on paths that exist or not, hold an image  *)
(* or not, in a supported format or not.                                    *)
(***************************************************************************)
LoaderPaths == {"scan.png", "small.png", "anim.gif", "notes.txt", "gone.png", "lost.bmp"}

TargetDpis == {72, 150, 300, 600}

InitLoader ==
    /\ trace_objs = <<>>
    /\ traces = <<>>
    /\ loose_intervals = <<>>
    /\ total_intervals = 0
    /\ total_points = 0
    /\ next_obj = 0
    /\ OutsideInit
    /\ last = [op |-> "init", file_path |-> "", target_dpi |-> 600, raised |-> None,
               ret |-> FALSE]

NextLoader ==
    \E file_path \in LoaderPaths, target_dpi \in TargetDpis :
        /\ loader_load(file_path, target_dpi)
        /\ last' = [op |-> "load", file_path |-> file_path, target_dpi |-> target_dpi,
                     raised |-> load_raised(file_path), ret |-> load_result(file_path)]

SpecLoader == InitLoader /\ [][NextLoader]_vars

\* C17: load of a path that does not exist raises FileNotFoundError to the
\* caller; every other load error returns False without raising.
C17_NotFoundIsRaised ==
    last.op = "load" =>
        /\ last.file_path \notin ExistingPaths => last.raised = "FileNotFoundError"
        /\ (last.file_path \in ExistingPaths /\ load_error(last.file_path) # None)
               => (last.raised = None /\ ~last.ret)

\* Every load error, the missing file included, returns False without
\* raising and leaves no image data.
EveryErrorReturnsFalse ==
    (last.op = "load" /\ load_error(last.file_path) # None)
        => (last.raised = None /\ ~last.ret /\ ~loader.image_data.present)

(***************************************************************************)
(* SpecGestures: the gesture handlers of the MainWindow and of the trace   *)
(* management dialog on a project that starts with one trace.               *)
(***************************************************************************)
GestureTraceIds == {1, 2}

\* The dialog's values of one gesture: a vertical raster from 0 to 50.
GestureDialogInputs ==
    { [orientation |-> 1, time_start |-> 0, time_end |-> 50, sampling_rate |-> 100,
       poly_order |-> 3, auto_interpolate |-> FALSE, show_grid |-> TRUE] }

InitGestures ==
    /\ trace_objs = <<SeismicTrace(1, "Trace 1", <<0, 0, 4, 4>>, <<>>)>>
    /\ traces = <<1>>
    /\ loose_intervals = <<>>
    /\ total_intervals = 0
    /\ total_points = 0
    /\ next_obj = 0
    /\ OutsideInit
    /\ last = [op |-> "init", escaped |-> None]

Gesture(op, escaped) == last' = [op |-> op, escaped |-> escaped]

NextGestures ==
    \/ finish_current_interval
           /\ Gesture("finish_current_interval", finish_current_interval_escapes)
    \/ clear_current_interval
           /\ Gesture("clear_current_interval", clear_current_interval_escapes)
    \/ \E ok \in BOOLEAN :
           auto_detect_traces(ok, DefaultDetectCount)
               /\ Gesture("auto_detect_traces", auto_detect_traces_escapes(ok))
    \/ \E d \in GestureDialogInputs, threshold_enabled \in BOOLEAN :
           /\ apply_raster_settings(d)
           /\ Gesture("apply_raster_settings", apply_raster_settings_escapes(threshold_enabled))
    \/ \E tid \in GestureTraceIds :
           /\ next_obj < MaxIntervalObjs
           /\ dialog_add_interval(tid)
           /\ Gesture("add_interval", dialog_add_interval_escapes(tid))
    \/ new_project /\ Gesture("new_project", file_handler_escapes)
    \/ \E chosen \in BOOLEAN :
           open_project(chosen, TRUE) /\ Gesture("open_project", file_handler_escapes)
    \/ \E accepted \in BOOLEAN, filepath \in ImportPaths :
           import_raster(accepted, filepath, TRUE) /\ Gesture("import_raster", file_handler_escapes)
    \/ \E chosen \in BOOLEAN, writable \in BOOLEAN :
           save_project(chosen, writable) /\ Gesture("save_project", file_handler_escapes)

SpecGestures == InitGestures /\ [][NextGestures]_vars

\* C16: no gesture handler of the MainWindow or of the management dialog
\* lets an exception escape: every handler returns normally.
C16_NoExceptionEscapes == last.escaped = None

\* The file handlers new, open, import and save return normally in every
\* state, and so does apply_raster_settings as far as the project goes.
FileHandlersReturn ==
    last.op \in {"new_project", "open_project", "import_raster", "save_project"}
        => last.escaped = None

(***************************************************************************)
(* SpecAddInterval: TraceManager.add_interval_to_trace on traces the       *)
(* manager created, with the corners of raster_coords in either order and  *)
(* intervals whose points lie inside, on the edge of and outside the       *)
(* rectangle.  last records the call and what it returned.                 *)
(***************************************************************************)
AreaCoords == { <<2, 2, 0, 0>>, <<1, 0, 3, 2>> }

AreaContents(pts) ==
    [type |-> "waveform", points |-> pts, color |-> "#FF0000",
     polynomial_order |-> 3, time_correction |-> 0, amplitude_correction |-> 0]

\* No points; inside both rectangles; on corners of the first rectangle; one
\* point inside and one past an edge; past the left edge of the second.
AreaInputs ==
    { AreaContents(<<>>),
      AreaContents(<<DigitizationPoint(1, 1)>>),
      AreaContents(<<DigitizationPoint(0, 0), DigitizationPoint(2, 2)>>),
      AreaContents(<<DigitizationPoint(1, 1), DigitizationPoint(1, 3)>>),
      AreaContents(<<DigitizationPoint(3, 1)>>) }

AreaArguments ==
    ExistingIntervals \cup
    (IF next_obj < MaxIntervalObjs
     THEN {NewInterval(next_obj + 1, c) : c \in AreaInputs}
     ELSE {})

InitAddInterval ==
    /\ trace_objs = <<>>
    /\ traces = <<>>
    /\ loose_intervals = <<>>
    /\ total_intervals = 0
    /\ total_points = 0
    /\ next_obj = 0
    /\ OutsideInit
    /\ last = [op |-> "init"]

NextAddInterval ==
    \/ \E nm \in TraceNameInputs, rc \in AreaCoords :
           /\ Len(trace_objs) < MaxTraceObjs
           /\ create_trace(nm, rc)
           /\ last' = [op |-> "create_trace"]
    \/ \E h \in TraceHandles : \E iv \in AreaArguments :
           /\ Len(trace_objs[h].intervals) < MaxLen
           /\ add_interval_to_trace(h, iv)
           /\ last' = [op |-> "add_interval_to_trace", trace |-> h, interval |-> iv,
                       ret |-> add_interval_result(h, iv)]

SpecAddInterval == InitAddInterval /\ [][NextAddInterval]_vars

\* v lies between the two corner coordinates a and b, whichever is smaller.
Between(a, v, b) == (a <= v /\ v <= b) \/ (b <= v /\ v <= a)

\* Every point of iv lies in the rectangle spanned by the corners rc.
AllPointsInside(iv, rc) ==
    \A k \in 1..Len(iv.points) :
        /\ Between(rc[1], iv.points[k].x_px, rc[3])
        /\ Between(rc[2], iv.points[k].y_px, rc[4])

\* C20: add_interval_to_trace returns true exactly when every point of the
\* interval lies in the trace's raster_coords rectangle, edges included (an
\* interval without points is accepted); an accepted interval is appended to
\* the end of the trace's list, total_intervals grows by 1 and total_points
\* by the number of its points; a rejected call returns false and leaves the
\* trace's list and both counters as they were.
C20_AcceptsExactlyInsideArea ==
    [][last'.op = "add_interval_to_trace" =>
          LET h == last'.trace
              iv == last'.interval
              inside == AllPointsInside(iv, trace_objs[h].raster_coords)
          IN  /\ last'.ret = inside
              /\ IF inside
                 THEN /\ trace_objs'[h].intervals = Append(trace_objs[h].intervals, iv)
                      /\ total_intervals' = total_intervals + 1
                      /\ total_points' = total_points + Len(iv.points)
                 ELSE /\ trace_objs'[h].intervals = trace_objs[h].intervals
                      /\ total_intervals' = total_intervals
                      /\ total_points' = total_points]_vars

\* An interval with points on the corners of the rectangle was accepted and
\* one with a point outside it was rejected afterwards.
C20_Witness ==
    /\ last.op = "add_interval_to_trace"
    /\ ~last.ret
    /\ last.interval.points # <<>>
    /\ \E k \in 1..Len(trace_objs[last.trace].intervals) :
           LET iv == trace_objs[last.trace].intervals[k]
               rc == trace_objs[last.trace].raster_coords
           IN  \E j \in 1..Len(iv.points) :
                   /\ iv.points[j].x_px \in {rc[1], rc[3]}
                   /\ iv.points[j].y_px \in {rc[2], rc[4]}
    /\ total_intervals > 0

(***************************************************************************)
(* SpecCurveFile: curves drawn on one of one or two images, written with   *)
(* save_curves_to_file and read back with load_curves_from_file.  last     *)
(* records the call and what it returned.                                  *)
(***************************************************************************)
InitCurveFile ==
    /\ trace_objs = <<>>
    /\ traces = <<>>
    /\ loose_intervals = <<>>
    /\ total_intervals = 0
    /\ total_points = 0
    /\ next_obj = 0
    /\ settings = DefaultSettings
    /\ file = NoFile
    /\ gl = GLWidget(RasterSize)
    /\ curves_file = NoCurvesFile
    /\ tile_manager = TileManager(DefaultTileSize)
    /\ canvas = OpenGLRasterWidget(WidgetSize)
    /\ raster = NoRasterData
    /\ window = MainWindow
    /\ engine = DigitizerEngine
    /\ loader = ImageLoader
    /\ last = [op |-> "init"]

Returned(op, ret) == last' = [op |-> op, ret |-> ret]

NextCurveFile ==
    \/ \E path \in AddedPaths :
           /\ gl.raster_objects = <<ImagePath>>
           /\ add_image(path) /\ Called("add_image")
    \/ \E enabled \in BOOLEAN :
           set_mode_move(enabled) /\ Called("set_mode_move")
    \/ start_vectorization
           /\ Called("start_vectorization")
    \/ /\ Len(gl.curves) < MaxCurves
       /\ finish_vectorization /\ Called("finish_vectorization")
    \/ clear_all_curves /\ Called("clear_all_curves")
    \/ \E writable \in BOOLEAN :
           /\ save_curves_to_file(writable)
           /\ Returned("save_curves_to_file", save_curves_result(gl, writable))
    \/ /\ load_curves_from_file
       /\ Returned("load_curves_from_file", load_curves_result(gl, curves_file))
    \/ \E p \in CurvePositions :
           /\ mousePressEvent("Left", p)
           /\ Len(gl'.current_curve.points) <= MaxCurvePoints
           /\ Called("mousePressEvent")

SpecCurveFile == InitCurveFile /\ [][NextCurveFile]_vars

\* save_curves_to_file has just returned True, a raster object is active and
\* every committed curve belongs to it.
SavedForActive ==
    /\ last.op = "save_curves_to_file"
    /\ last.ret
    /\ gl.active_object # NoRaster
    /\ \A k \in 1..Len(gl.curves) : gl.curves[k].raster_object = gl.active_object

\* The step reads the file back and the curves after it are the curves
\* before it, point for point once adjacent duplicates are dropped.
LoadRestores ==
    /\ last'.op = "load_curves_from_file"
    /\ last'.ret
    /\ Len(gl'.curves) = Len(gl.curves)
    /\ \A k \in 1..Len(gl.curves) :
           /\ gl'.curves[k].points = unique_points(gl.curves[k].points)
           /\ gl'.curves[k].color = gl.curves[k].color
           /\ gl'.curves[k].line_width = gl.curves[k].line_width

\* C19: when save_curves_to_file has succeeded for committed curves of the
\* active raster object, whichever object of the scene that is, a
\* load_curves_from_file of the file that follows succeeds and restores as
\* many curves, each with the same points (adjacent duplicates removed),
\* colour and width.
C19_CurveFileRoundTrip ==
    [][(SavedForActive /\ last'.op = "load_curves_from_file") => LoadRestores]_vars

\* C27: a load_curves_from_file that raises leaves the committed curves as
\* they were before the call.
C27_FailedLoadKeepsCurves ==
    [][(last'.op = "load_curves_from_file" /\ ~last'.ret) => gl'.curves = gl.curves]_vars

\* A load that raises before the file's curves are read (no file, no active
\* raster, another raster's file) leaves the committed curves as they were.
RefusedLoadKeepsCurves ==
    [][(last'.op = "load_curves_from_file" /\ load_refused(gl, curves_file))
          => gl'.curves = gl.curves]_vars

\* The same for the first object of the scene and curves that keep at least
\* two points once adjacent duplicates are dropped.
RoundTripOfFirstObject ==
    [][(/\ SavedForActive
        /\ gl.active_object = 1
        /\ \A k \in 1..Len(gl.curves) :
               Len(unique_points(gl.curves[k].points)) >= MinCurvePoints
        /\ last'.op = "load_curves_from_file") => LoadRestores]_vars

\* The same for curves that keep at least two points, whichever object is
\* active.
RoundTripOfDistinctPoints ==
    [][(/\ SavedForActive
        /\ \A k \in 1..Len(gl.curves) :
               Len(unique_points(gl.curves[k].points)) >= MinCurvePoints
        /\ last'.op = "load_curves_from_file") => LoadRestores]_vars

(***************************************************************************)
(* SpecLoadTile: the tiled canvas with a raster set, and load_tile called  *)
(* for the needed tiles that have no texture, the driver accepting or      *)
(* rejecting each upload.  last records the call.                          *)
(***************************************************************************)
LoadTileRasters == {SeismogramRaster("scan.png"), SeismogramRaster("small.png")}

InitLoadTile ==
    /\ trace_objs = <<>>
    /\ traces = <<>>
    /\ loose_intervals = <<>>
    /\ total_intervals = 0
    /\ total_points = 0
    /\ next_obj = 0
    /\ OutsideInit
    /\ last = [op |-> "init"]

\* The tiles load_visible_tiles would call load_tile for.
TilesToLoad ==
    IF ~canvas.raster.present THEN {}
    ELSE calculate_needed_tiles(canvas, get_visible_viewport(canvas)) \ canvas.textures

load_tile(tile_pos, reads, first_error, retry_error) ==
    /\ canvas' = load_tile_effect(canvas, tile_pos, reads, first_error, retry_error)
    /\ UNCHANGED canvas_unchanged

NextLoadTile ==
    \/ \E r \in LoadTileRasters :
           set_raster(r, FALSE) /\ last' = [op |-> "set_raster"]
    \/ paintGL(FALSE) /\ last' = [op |-> "paintGL"]
    \/ \E tile_pos \in TilesToLoad : \E reads, first_error, retry_error \in BOOLEAN :
           /\ load_tile(tile_pos, reads, first_error, retry_error)
           /\ last' = [op |-> "load_tile", tile_pos |-> tile_pos, reads |-> reads,
                       first_error |-> first_error, retry_error |-> retry_error,
                       result |-> load_tile_result(tile_image_size(canvas, tile_pos),
                                                   first_error, retry_error)]

SpecLoadTile == InitLoadTile /\ [][NextLoadTile]_vars

\* C21: when the driver rejects the first upload of a tile, load_tile makes
\* exactly one more upload, of the halved tile, whatever the tile's size;
\* and when no upload was accepted the tile is not in the texture cache and
\* its texture handle has been released.
C21_RejectedUploadRetriedOnce ==
    (last.op = "load_tile" /\ last.reads /\ last.first_error) =>
        /\ last.result.uploads = 2
        /\ ~last.result.accepted =>
               (last.tile_pos \notin canvas.textures /\ last.result.released)

\* A tile whose upload the driver accepts is in the cache with its handle,
\* after one upload.
AcceptedUploadIsRecorded ==
    (last.op = "load_tile" /\ last.reads /\ ~last.first_error) =>
        /\ last.result.uploads = 1
        /\ last.tile_pos \in canvas.textures
        /\ ~last.result.released

(***************************************************************************)
(* SpecCutPolygon: the cutting polygon under cut-mode double-clicks near   *)
(* a corner, near an edge, between the edge threshold and the border       *)
(* threshold, in the middle of the image and off the image.                *)
(***************************************************************************)
CutClickPositions ==
    { <<1, 2>>, <<20, 1>>, <<39, 38>>, <<12, 20>>, <<20, 20>>, <<5, 60>> }

InitCutPolygon ==
    /\ trace_objs = <<>>
    /\ traces = <<>>
    /\ loose_intervals = <<>>
    /\ total_intervals = 0
    /\ total_points = 0
    /\ next_obj = 0
    /\ OutsideInit
    /\ last = [op |-> "init"]

NextCutPolygon ==
    \/ \E enabled \in BOOLEAN : set_mode_move(enabled) /\ Called("set_mode_move")
    \/ \E enabled \in BOOLEAN : set_cut_mode(enabled) /\ Called("set_cut_mode")
    \/ \E button \in Buttons, p \in CutClickPositions, sz \in CutSizes :
           /\ gl.cuts < MaxCuts
           /\ mouseDoubleClickEvent(button, p, sz)
           /\ last' = [op |-> "mouseDoubleClickEvent", button |-> button, pos |-> p]
    \/ \E button \in Buttons, p \in PressPositions :
           /\ mousePressEvent(button, p)
           /\ Called("mousePressEvent")

SpecCutPolygon == InitCutPolygon /\ [][NextCutPolygon]_vars

\* p lies on the outline of the image of size sz.
OnOutline(sz, p) ==
    \/ p[1] \in {0, sz[1]} /\ 0 <= p[2] /\ p[2] <= sz[2]
    \/ p[2] \in {0, sz[2]} /\ 0 <= p[1] /\ p[1] <= sz[1]

\* Some point of the outline is less than BorderThreshold from p on both axes.
NearOutline(sz, p) ==
    \E x \in 0..sz[1], y \in 0..sz[2] :
        /\ OnOutline(sz, <<x, y>>)
        /\ Abs(p[1] - x) < BorderThreshold
        /\ Abs(p[2] - y) < BorderThreshold

\* C22: every vertex of the cutting polygon lies on the outline of the
\* active raster (local x in {0, width} with 0 <= y <= height, or local y in
\* {0, height} with 0 <= x <= width), and a cut-mode double-click that is not
\* within 15 px of the outline leaves the polygon as it is.
C22_VerticesOnBorder ==
    /\ [](\A k \in 1..Len(gl.cutting_polygon.points) :
              OnOutline(gl.size, gl.cutting_polygon.points[k]))
    /\ [][(/\ last'.op = "mouseDoubleClickEvent"
           /\ gl.cut_mode
           /\ ~NearOutline(gl.size, last'.pos))
              => gl'.cutting_polygon = gl.cutting_polygon]_vars

\* A left double-click in cut mode on the image, within the edge threshold
\* of an edge or the corner threshold of a corner, stores a vertex on the
\* outline or none.
SnappedVertexOnOutline ==
    [][(/\ last'.op = "mouseDoubleClickEvent"
        /\ gl.cut_mode
        /\ contains_point(gl.size, last'.pos)
        /\ \/ Min4(Abs(last'.pos[1]), Abs(last'.pos[1] - gl.size[1]),
                    Abs(last'.pos[2]), Abs(last'.pos[2] - gl.size[2])) <= EdgeThreshold
           \/ squared_distance(last'.pos, nearest_corner(gl.size, last'.pos))
                  <= CornerThreshold * CornerThreshold
        /\ Len(gl'.cutting_polygon.points) = Len(gl.cutting_polygon.points) + 1)
           => OnOutline(gl.size, gl'.cutting_polygon.points[Len(gl'.cutting_polygon.points)])]_vars

\* A double-click on the image whose distance to every edge is at least
\* the border threshold leaves the polygon as it is.
MiddleClickIgnored ==
    [][(/\ last'.op = "mouseDoubleClickEvent"
        /\ gl.cut_mode
        /\ contains_point(gl.size, last'.pos)
        /\ ~NearOutline(gl.size, last'.pos))
           => gl'.cutting_polygon = gl.cutting_polygon]_vars

(***************************************************************************)
(* SpecAutoDetect: the main window under new project, import raster, the   *)
(* first paint and auto-detect traces with every count the dialog allows.  *)
(***************************************************************************)
InitAutoDetect ==
    /\ trace_objs = <<>>
    /\ traces = <<>>
    /\ loose_intervals = <<>>
    /\ total_intervals = 0
    /\ total_points = 0
    /\ next_obj = 0
    /\ OutsideInit
    /\ last = [op |-> "init"]

NextAutoDetect ==
    \/ new_project /\ Called("new_project")
    \/ \E accepted \in BOOLEAN, filepath \in ImportPaths, reads \in BOOLEAN :
           import_raster(accepted, filepath, reads) /\ Called("import_raster")
    \/ paintGL(TRUE) /\ Called("paintGL")
    \/ \E ok \in BOOLEAN, num_traces \in MinDetectCount..MaxDetectCount :
           /\ auto_detect_traces(ok, num_traces)
           /\ last' = [op |-> "auto_detect_traces", ok |-> ok, num_traces |-> num_traces,
                       escaped |-> auto_detect_traces_escapes(ok)]

SpecAutoDetect == InitAutoDetect /\ [][NextAutoDetect]_vars

\* C23: with an imported raster shown on the canvas, auto-detect traces
\* confirmed with a count n in 1..10 makes project.traces n traces longer.
C23_DetectAddsTraces ==
    [][(/\ last'.op = "auto_detect_traces"
        /\ last'.ok
        /\ RasterOnCanvas)
           => Len(traces') = Len(traces) + last'.num_traces]_vars

\* What the code does: the trace list is never changed by auto-detect, and a
\* confirmed call ends in an AttributeError.
DetectAddsNothing ==
    /\ [][last'.op = "auto_detect_traces" => traces' = traces /\ trace_objs' = trace_objs]_vars
    /\ []((last.op = "auto_detect_traces" /\ last.ok) => last.escaped = "AttributeError")

(***************************************************************************)
(* SpecCounters: the project under add_trace, remove_trace,                *)
(* add_interval_to_trace, merge_intervals, split_interval, the dialog's    *)
(* add-interval and delete and the panel's remove, with the counters       *)
(* followed below zero as well.                                            *)
(***************************************************************************)
MaxCounterTraces == 1   \* SeismicTrace objects constructed (SpecCounters)

InSignedRange(ti, tp) ==
    /\ ti \in (-MaxCount)..MaxCount
    /\ tp \in (-3 * MaxCount)..(3 * MaxCount)

InitCounters ==
    /\ trace_objs = <<>>
    /\ traces = <<>>
    /\ loose_intervals \in LooseInputs
    /\ total_intervals = 0
    /\ total_points = 0
    /\ next_obj = Len(loose_intervals)
    /\ OutsideInit
    /\ last = [op |-> "init"]

NextCounters ==
    \/ \E nm \in TraceNameInputs, rc \in RasterCoordsInputs :
           /\ Len(trace_objs) < MaxCounterTraces
           /\ create_trace(nm, rc)
           /\ UNCHANGED last
    \/ \E h \in TraceHandles :
           /\ Len(traces) < MaxLen
           /\ InSignedRange(total_intervals + Len(trace_objs[h].intervals),
                             total_points + SumPoints(trace_objs[h].intervals))
           /\ add_trace(h)
           /\ UNCHANGED last
    \/ \E i \in ListedTraceIds \cup {UnknownId} :
           /\ remove_trace(i)
           /\ InSignedRange(total_intervals', total_points')
           /\ UNCHANGED last
    \/ \E h \in TraceHandles : \E iv \in IntervalArguments :
           /\ Len(trace_objs[h].intervals) < MaxLen
           /\ InSignedRange(total_intervals + 1, total_points + Len(iv.points))
           /\ add_interval_to_trace(h, iv)
           /\ UNCHANGED last
    \/ \E h \in TraceHandles : \E ids \in SUBSET (IntervalIdsIn(h) \cup {UnknownId}) :
           /\ merge_result(h, ids) # NoObject => next_obj < MaxIntervalObjs
           /\ merge_intervals(h, ids)
           /\ UNCHANGED last
    \/ \E h \in TraceHandles : \E i \in IntervalIdsIn(h) \cup {UnknownId} :
       \E k \in 0..MaxLen :
           /\ split_result(h, i, k) # <<NoObject, NoObject>> =>
                  next_obj + 2 <= MaxIntervalObjs /\ Len(trace_objs[h].intervals) < MaxLen
           /\ split_interval(h, i, k)
           /\ UNCHANGED last
    \/ \E tid \in ListedTraceIds :
           /\ next_obj < MaxIntervalObjs
           /\ Len(trace_objs[find_trace_by_id(tid)].intervals) < MaxLen
           /\ dialog_add_interval(tid)
           /\ UNCHANGED last
    \/ \E tid \in ListedTraceIds :
           /\ dialog_delete_selected("trace", tid, UnknownId)
           /\ InSignedRange(total_intervals', total_points')
           /\ UNCHANGED last
    \/ \E tid \in ListedTraceIds : \E iid \in IntervalIdsOf(tid) :
           /\ dialog_delete_selected("interval", tid, iid)
           /\ UNCHANGED last
    \/ \E iid \in LooseIds :
           /\ dialog_delete_selected("interval", NoTrace, iid)
           /\ UNCHANGED last
    \/ \E tid \in ListedTraceIds :
           /\ panel_remove_selected("trace", tid, UnknownId)
           /\ UNCHANGED last
    \/ \E tid \in ListedTraceIds : \E iid \in IntervalIdsOf(tid) :
           /\ panel_remove_selected("interval", tid, iid)
           /\ UNCHANGED last
    \/ \E iid \in LooseIds :
           /\ panel_remove_selected("loose_interval", NoTrace, iid)
           /\ UNCHANGED last

SpecCounters == InitCounters /\ [][NextCounters]_vars

\* C24: total_intervals and total_points are never negative.
C24_CountersNotNegative == total_intervals >= 0 /\ total_points >= 0

\* The counters only go down in a step that takes a trace out of
\* project.traces or an interval out of a list.
DecreaseOnlyOnRemoval ==
    [][(total_intervals' < total_intervals \/ total_points' < total_points) =>
           \/ Len(traces') < Len(traces)
           \/ \E h \in TraceHandles :
                  Len(trace_objs'[h].intervals) < Len(trace_objs[h].intervals)
           \/ Len(loose_intervals') < Len(loose_intervals)]_vars

(***************************************************************************)
(* SpecRasterSwap: the tiled canvas given one raster after another, with   *)
(* clear_scene, the first paint and drags in between.  last records what   *)
(* the last set_raster returned.                                           *)
(***************************************************************************)
SwapRasters ==
    {SeismogramRaster("scan.png"), SeismogramRaster("small.png"), SeismogramRaster("notes.txt")}

SwapDragInputs == { <<-500, 0>>, <<500, 0>> }

InitRasterSwap ==
    /\ trace_objs = <<>>
    /\ traces = <<>>
    /\ loose_intervals = <<>>
    /\ total_intervals = 0
    /\ total_points = 0
    /\ next_obj = 0
    /\ OutsideInit
    /\ last = [op |-> "init", reads |-> TRUE]

canvas_clear_scene ==
    /\ canvas' = clear_scene(canvas)
    /\ UNCHANGED canvas_unchanged

NextRasterSwap ==
    /\ \/ \E r \in SwapRasters, reads \in BOOLEAN :
              /\ set_raster(r, reads)
              /\ last' = [op |-> "set_raster", reads |-> reads, ret |-> set_raster_result(r)]
       \/ canvas_clear_scene /\ last' = [op |-> "clear_scene", reads |-> last.reads]
       \/ paintGL(last.reads) /\ last' = [op |-> "paintGL", reads |-> last.reads]
       \/ \E d \in SwapDragInputs :
              /\ mouseMoveEvent(d, last.reads)
              /\ last' = [op |-> "mouseMoveEvent", reads |-> last.reads]
    /\ InView(canvas')

SpecRasterSwap == InitRasterSwap /\ [][NextRasterSwap]_vars

\* C25: once set_raster(r) has returned True, every texture in the cache was
\* uploaded from r.
C25_TexturesOfCurrentRaster ==
    (last.op = "set_raster" /\ last.ret) =>
        \A t \in canvas.textures : canvas.texture_source[t] = canvas.raster.image_path

\* After clear_scene the cache is empty, so a raster set next starts with its
\* own textures only.
ClearSceneEmptiesCache ==
    /\ [](last.op = "clear_scene" => canvas.textures = {})
    /\ [][(canvas.textures = {} /\ last'.op = "set_raster" /\ last'.ret) =>
              \A t \in canvas'.textures :
                  canvas'.texture_source[t] = canvas'.raster.image_path]_vars

(***************************************************************************)
(* SpecActive: the active raster object and the is_active flags under      *)
(* presses, double-clicks and the mode setters, with one image loaded.     *)
(***************************************************************************)
ActivePositions == { <<10, 10>>, <<60, 60>> }

InitActive ==
    /\ trace_objs = <<>>
    /\ traces = <<>>
    /\ loose_intervals = <<>>
    /\ total_intervals = 0
    /\ total_points = 0
    /\ next_obj = 0
    /\ OutsideInit
    /\ last = [op |-> "init"]

NextActive ==
    \/ \E enabled \in BOOLEAN : set_mode_move(enabled) /\ Called("set_mode_move")
    \/ \E enabled \in BOOLEAN :
           set_selection_enabled(enabled) /\ Called("set_selection_enabled")
    \/ \E enabled \in BOOLEAN : set_cut_mode(enabled) /\ Called("set_cut_mode")
    \/ \E button \in Buttons, p \in ActivePositions, sz \in CutSizes :
           /\ gl.cuts < MaxCuts
           /\ mouseDoubleClickEvent(button, p, sz)
           /\ last' = [op |-> "mouseDoubleClickEvent", button |-> button, pos |-> p]
    \/ \E button \in Buttons, p \in ActivePositions :
           /\ mousePressEvent(button, p)
           /\ last' = [op |-> "mousePressEvent", button |-> button, pos |-> p]

SpecActive == InitActive /\ [][NextActive]_vars

\* C26: at most one raster object has is_active set, and an object has
\* is_active set exactly when it is the active_object.
C26_ActiveFlagFollowsActiveObject ==
    /\ Cardinality(gl.is_active) <= 1
    /\ \A k \in 1..Len(gl.raster_objects) : (k \in gl.is_active) <=> (k = gl.active_object)

\* The mode setters and the selecting double-click leave the flag and the
\* active object in step; a press changes the active object only.
SettersKeepFlagInStep ==
    /\ [][(last'.op \in {"set_mode_move", "set_selection_enabled", "set_cut_mode"}
             /\ gl.is_active = {gl.active_object} \ {NoRaster})
              => gl'.is_active = {gl'.active_object} \ {NoRaster}]_vars
    /\ [][last'.op = "mousePressEvent" => gl'.is_active = gl.is_active]_vars

(***************************************************************************)
(* SpecOpenProject: the File menu on a project that may hold a trace: new, *)
(* import raster, save, save as and open, with project files that cannot   *)
(* be read and rasters that cannot be opened.                              *)
(***************************************************************************)
InitOpenProject ==
    /\ trace_objs = <<>>
    /\ traces = <<>>
    /\ loose_intervals = <<>>
    /\ total_intervals = 0
    /\ total_points = 0
    /\ next_obj = 0
    /\ OutsideInit
    /\ last = [op |-> "init"]

NextOpenProject ==
    \/ \E nm \in TraceNameInputs, rc \in RasterCoordsInputs :
           /\ Len(trace_objs) < MaxCounterTraces
           /\ create_trace(nm, rc)
           /\ Called("create_trace")
    \/ \E h \in TraceHandles :
           /\ Len(traces) < MaxCounterTraces
           /\ add_trace(h)
           /\ Called("add_trace")
    \/ new_project /\ Called("new_project")
    \/ \E accepted \in BOOLEAN, filepath \in ImportPaths :
           import_raster(accepted, filepath, TRUE) /\ Called("import_raster")
    \/ \E chosen \in BOOLEAN, writable \in BOOLEAN :
           save_project(chosen, writable) /\ Called("save_project")
    \/ \E chosen \in BOOLEAN, writable \in BOOLEAN :
           save_project_as(chosen, writable) /\ Called("save_project_as")
    \/ \E chosen \in BOOLEAN :
           /\ open_project(chosen, TRUE)
           /\ last' = [op |-> "open_project", chosen |-> chosen,
                       failed |-> chosen /\ open_project_fails]

SpecOpenProject == InitOpenProject /\ [][NextOpenProject]_vars

\* The window's current project: the traces of its list, its loose
\* intervals, counters, settings, raster and path.
CurrentProject ==
    <<[k \in 1..Len(traces) |-> trace_objs[traces[k]]], loose_intervals, total_intervals,
      total_points, settings, raster, window.project_path>>

\* C28: an open-project action that fails (unreadable project file, or a
\* raster that cannot be loaded from its recorded path) leaves the window's
\* current project, its title and the canvas's raster as they were.
C28_FailedOpenKeepsWindow ==
    [][(last'.op = "open_project" /\ last'.failed)
          => /\ CurrentProject' = CurrentProject
             /\ window'.title = window.title
             /\ canvas'.raster = canvas.raster]_vars

\* What the code keeps: the title and the canvas in every failed open, and
\* the project as well when it is the project file that cannot be read.
FailedOpenKeepsTitleAndCanvas ==
    [][(last'.op = "open_project" /\ last'.failed)
          => /\ window'.title = window.title
             /\ canvas' = canvas
             /\ (~file.saved => CurrentProject' = CurrentProject)]_vars

(***************************************************************************)
(* SpecTimeMarks: generate_time_marks of the DigitizerEngine, its while    *)
(* loop taken one pass at a time, on start and end times and intervals     *)
(* that are positive, zero and negative.  SpecTimeMarksFair adds that a    *)
(* call in progress keeps running.                                         *)
(***************************************************************************)
MaxMarks == 5     \* passes of the loop that are followed

TimeArguments == 0..3

StepArguments == -1..2

DefaultWidth == 1000   \* width = 1000.0

\* _time_to_x_position(time, start_time, end_time), as a fraction.  The
\* project's raster holds no pil_image, so that the width is the default.
time_to_x_position(time, start_time, end_time) ==
    LET width == IF raster.present /\ pil_image(raster) # None THEN image_size(raster.image_path)[1]
                 ELSE DefaultWidth
    IN IF end_time = start_time THEN Whole(0)
       ELSE FDiv(FMul(Whole(width), Whole(time - start_time)), Whole(end_time - start_time))

\* generate_time_marks(start_time, end_time, interval_seconds): the call, up
\* to the first test of the loop.
generate_time_marks(start_time, end_time, interval_seconds) ==
    /\ engine.marks.pc = "idle"
    /\ engine' = [engine EXCEPT !.marks =
                      [pc |-> "loop", start_time |-> start_time, end_time |-> end_time,
                       interval_seconds |-> interval_seconds, current_time |-> start_time,
                       time_marks |-> <<>>]]
    /\ UNCHANGED engine_unchanged

\* One pass of the loop: while current_time <= end_time, append a mark and
\* add interval_seconds.
time_marks_pass ==
    /\ engine.marks.pc = "loop"
    /\ engine.marks.current_time <= engine.marks.end_time
    /\ Len(engine.marks.time_marks) < MaxMarks
    /\ LET c == engine.marks
       IN engine' = [engine EXCEPT !.marks =
                        [c EXCEPT !.time_marks =
                                      Append(@, [time |-> c.current_time,
                                                 x_position |->
                                                     time_to_x_position(c.current_time,
                                                                        c.start_time,
                                                                        c.end_time)]),
                                  !.current_time = @ + c.interval_seconds]]
    /\ UNCHANGED engine_unchanged

\* The loop is left and time_marks is returned.
time_marks_return ==
    /\ engine.marks.pc = "loop"
    /\ ~(engine.marks.current_time <= engine.marks.end_time)
    /\ engine' = [engine EXCEPT !.marks = NoMarks]
    /\ UNCHANGED engine_unchanged

InitTimeMarks ==
    /\ trace_objs = <<>>
    /\ traces = <<>>
    /\ loose_intervals = <<>>
    /\ total_intervals = 0
    /\ total_points = 0
    /\ next_obj = 0
    /\ OutsideInit
    /\ last = [op |-> "init"]

PassOfLoop == time_marks_pass /\ Called("pass")

ReturnOfCall ==
    /\ time_marks_return
    /\ last' = [op |-> "return", start_time |-> engine.marks.start_time,
                end_time |-> engine.marks.end_time, ret |-> engine.marks.time_marks]

NextTimeMarks ==
    \/ \E start_time \in TimeArguments, end_time \in TimeArguments,
          interval_seconds \in StepArguments :
           /\ generate_time_marks(start_time, end_time, interval_seconds)
           /\ Called("generate_time_marks")
    \/ PassOfLoop
    \/ ReturnOfCall

SpecTimeMarks == InitTimeMarks /\ [][NextTimeMarks]_vars

SpecTimeMarksFair ==
    InitTimeMarks /\ [][NextTimeMarks]_vars /\ WF_vars(PassOfLoop) /\ WF_vars(ReturnOfCall)

\* C29: every generate_time_marks call returns, and the list it returns
\* starts with a mark at start_time when start_time <= end_time and holds no
\* mark after end_time.
C29_TimeMarksTerminate ==
    /\ (engine.marks.pc = "loop") ~> (engine.marks.pc = "idle")
    /\ [](last.op = "return" =>
             /\ (last.start_time <= last.end_time =>
                     last.ret # <<>> /\ last.ret[1].time = last.start_time)
             /\ \A k \in 1..Len(last.ret) : last.ret[k].time <= last.end_time)

\* With a positive interval_seconds the call returns, and what a call
\* returns is as said.
PositiveIntervalReturns ==
    /\ (engine.marks.pc = "loop" /\ engine.marks.interval_seconds > 0)
           ~> (engine.marks.pc = "idle")
    /\ [](last.op = "return" =>
             /\ (last.start_time <= last.end_time =>
                     last.ret # <<>> /\ last.ret[1].time = last.start_time)
             /\ \A k \in 1..Len(last.ret) : last.ret[k].time <= last.end_time)

\* With interval_seconds <= 0 and start_time <= end_time the test of the loop
\* is true before every pass, so that the loop is never left.
LoopTestStaysTrue ==
    (/\ engine.marks.pc = "loop"
     /\ engine.marks.interval_seconds <= 0
     /\ engine.marks.start_time <= engine.marks.end_time)
        => engine.marks.current_time <= engine.marks.end_time

\* The passes followed are enough for every call that returns.
ReturnsBelowMaxMarks == last.op = "return" => Len(last.ret) < MaxMarks

(***************************************************************************)
(* SpecCut: a TileManager given images to split, cut lines to prepare for  *)
(* and asked for the combined image.                                       *)
(***************************************************************************)
CutTileSizes == {3, 6}

CutImageSides == {3, 4, 6}

\* A diagonal through the image, a horizontal line through its upper rows, a
\* vertical line left of it, and a line of one point.
CutLines ==
    { << <<-1, -1>>, <<7, 7>> >>, << <<-1, 1>>, <<7, 1>> >>, << <<-1, -1>>, <<-1, 7>> >>,
      << <<1, 1>>, <<1, 1>> >> }

InitCut ==
    /\ trace_objs = <<>>
    /\ traces = <<>>
    /\ loose_intervals = <<>>
    /\ total_intervals = 0
    /\ total_points = 0
    /\ next_obj = 0
    /\ settings = DefaultSettings
    /\ file = NoFile
    /\ gl = GLWidget(RasterSize)
    /\ curves_file = NoCurvesFile
    /\ \E size \in CutTileSizes : tile_manager = TileManager(size)
    /\ canvas = OpenGLRasterWidget(WidgetSize)
    /\ raster = NoRasterData
    /\ window = MainWindow
    /\ engine = DigitizerEngine
    /\ loader = ImageLoader
    /\ last = [op |-> "init", image |-> <<>>]

NextCut ==
    \/ \E w \in CutImageSides, h \in CutImageSides : \E image \in ImagesOf(w, h) :
           /\ split_into_tiles(image, w, h)
           /\ last' = [op |-> "split_into_tiles", image |-> image]
    \/ \E line \in CutLines :
           /\ prepare_for_cut(line[1], line[2])
           /\ last' = [op |-> "prepare_for_cut", image |-> last.image]
    \/ /\ get_combined_image
       /\ last' = [op |-> "get_combined_image", image |-> last.image,
                   raised |-> combined_image_raises(tile_manager)]

SpecCut == InitCut /\ [][NextCut]_vars

\* The tiles are those split_into_tiles made of the last image.
FreshlySplit ==
    /\ last.image # <<>>
    /\ tile_manager.tiles = tiles_of(tile_manager.tile_size, last.image,
                                     tile_manager.image_width, tile_manager.image_height)

\* The rectangles of the tiles are pairwise disjoint.
Disjoint(tiles) ==
    \A j, k \in 1..Len(tiles) : j # k => PixelsOf(tiles[j]) \cap PixelsOf(tiles[k]) = {}

\* The pixels the tiles cover.
Extent(tiles) == UNION {PixelsOf(tiles[k]) : k \in 1..Len(tiles)}

\* C30: prepare_for_cut on the tiles of split_into_tiles leaves tiles that
\* are pairwise disjoint and cover the same extent, each with a buffer of
\* its own width and height, and get_combined_image returns the same buffer
\* as before the call.
C30_CutKeepsImage ==
    [][(last'.op = "prepare_for_cut" /\ FreshlySplit)
          => LET tiles == tile_manager'.tiles
             IN /\ Disjoint(tiles)
                /\ Extent(tiles) = Extent(tile_manager.tiles)
                /\ \A k \in 1..Len(tiles) :
                       /\ Len(tiles[k].image_data) = tiles[k].height
                       /\ Len(tiles[k].image_data[1]) = tiles[k].width
                /\ ~combined_image_raises(tile_manager')
                /\ combined_image(tile_manager') = combined_image(tile_manager)]_vars

\* What prepare_for_cut keeps: the tiles stay pairwise disjoint and cover the
\* same extent, after any number of cuts; and a cut that splits no tile
\* leaves the list as it was.
CutKeepsExtent ==
    [][last'.op = "prepare_for_cut"
          => /\ Disjoint(tile_manager'.tiles)
             /\ Extent(tile_manager'.tiles) = Extent(tile_manager.tiles)
             /\ (Len(tile_manager'.tiles) = Len(tile_manager.tiles)
                    => tile_manager' = tile_manager)]_vars

\* Once a tile has been split get_combined_image raises.
SplitTilesDoNotCombine ==
    [][(last'.op = "prepare_for_cut" /\ FreshlySplit
            /\ Len(tile_manager'.tiles) > Len(tile_manager.tiles))
          => combined_image_raises(tile_manager')]_vars


====
